---- MODULE Spec2Model ----
(***************************************************************************)
(* A model of the minerva ingestion-to-retrieval core: the resumable       *)
(* IngestionPipeline, the SemanticChunker, the ContentProcessor, the       *)
(* EmbeddingGenerator (batching, retry, embedding configs) and the         *)
(* WebScraperOrchestrator.                                                  *)
(*                                                                         *)
(* Texts are sequences of one-character strings over the alphabet Chars.   *)
(* The database is modelled as a committed store (db) and the working copy *)
(* of the one open SQLAlchemy session (sess): commit copies sess to db, a  *)
(* rollback or a closed session copies db to sess.                         *)
(***************************************************************************)
EXTENDS Integers, Sequences, FiniteSets, TLC

\* ------------------------------------------------------------------------
\* Bounds of the model
\* ------------------------------------------------------------------------

\* token budget of the book pipeline's chunker (stands for the default 700)
ChunkSizeTokens == 2

\* token budget of the website chunker (stands for the hard-coded 800)
WebChunkSizeTokens == 2

\* texts per provider call (stands for the default batch_size 100)
BatchSize == 2

\* longest provider script (outcomes of successive provider calls) explored
MaxScript == 5

\* longest provider script explored inside a pipeline run or a scrape
MaxStageScript == 2

\* number of process runs explored per behaviour
MaxRuns == 2

\* ------------------------------------------------------------------------
\* Program constants
\* ------------------------------------------------------------------------

\* chunk_overlap_percentage 0.15, in per cent
OverlapPct == 15

\* max_retries of _generate_batch_embeddings
MaxRetries == 3

\* OpenAI's cap on the batch size
MaxBatchSize == 2048

\* ------------------------------------------------------------------------
\* Text primitives (Python str methods used by the chunker)
\* ------------------------------------------------------------------------

Chars == {"a", "b", " ", "\n"}

IsSpace(c) == c \in {" ", "\n"}

RECURSIVE LStrip(_)
LStrip(t) ==
  IF t = <<>> THEN <<>>
  ELSE IF IsSpace(Head(t)) THEN LStrip(Tail(t)) ELSE t

RECURSIVE RStrip(_)
RStrip(t) ==
  IF t = <<>> THEN <<>>
  ELSE IF IsSpace(t[Len(t)]) THEN RStrip(SubSeq(t, 1, Len(t) - 1)) ELSE t

\* str.strip()
Strip(t) == RStrip(LStrip(t))

\* str.split(sep) for the two-character separator "\n\n": a left-to-right,
\* non-overlapping scan; always returns at least one (possibly empty) piece
RECURSIVE SplitScan(_, _, _)
SplitScan(t, i, cur) ==
  IF i > Len(t) THEN <<cur>>
  ELSE IF i < Len(t) /\ t[i] = "\n" /\ t[i + 1] = "\n"
       THEN <<cur>> \o SplitScan(t, i + 2, <<>>)
       ELSE SplitScan(t, i + 1, Append(cur, t[i]))

SplitBlankLine(t) == SplitScan(t, 1, <<>>)

\* str.split() without argument: the maximal runs of non-whitespace
RECURSIVE WordScan(_, _, _)
WordScan(t, i, cur) ==
  IF i > Len(t) THEN (IF cur = <<>> THEN <<>> ELSE <<cur>>)
  ELSE IF IsSpace(t[i])
       THEN (IF cur = <<>> THEN <<>> ELSE <<cur>>) \o WordScan(t, i + 1, <<>>)
       ELSE WordScan(t, i + 1, Append(cur, t[i]))

Words(t) == WordScan(t, 1, <<>>)

\* sep.join(parts)
RECURSIVE Join(_, _)
Join(sep, parts) ==
  IF parts = <<>> THEN <<>>
  ELSE IF Len(parts) = 1 THEN parts[1]
  ELSE parts[1] \o sep \o Join(sep, Tail(parts))

BlankLine == <<"\n", "\n">>

\* count_tokens: the tiktoken encoder is outside the repository; a token is
\* modelled as one whitespace-separated word
count_tokens(t) == Len(Words(t))

\* ------------------------------------------------------------------------
\* SemanticChunker
\* ------------------------------------------------------------------------

\* SemanticChunker.__init__: the configured budget, the overlap percentage
\* and the derived overlap_tokens = int(size * percentage)
SemanticChunker(size, pct) ==
  [chunk_size_tokens |-> size,
   chunk_overlap_percentage |-> pct,
   overlap_tokens |-> (size * pct) \div 100]

\* _split_into_paragraphs
RECURSIVE StripNonEmpty(_)
StripNonEmpty(ps) ==
  IF ps = <<>> THEN <<>>
  ELSE IF Strip(Head(ps)) = <<>> THEN StripNonEmpty(Tail(ps))
       ELSE <<Strip(Head(ps))>> \o StripNonEmpty(Tail(ps))

_split_into_paragraphs(text) == StripNonEmpty(SplitBlankLine(text))

\* a faulty _calculate_overlap_text: the overlap is cut from the head of the
\* closed chunk
_calculate_overlap_text_first_words(self, chunk_text) ==
  IF count_tokens(chunk_text) <= self.overlap_tokens THEN chunk_text
  ELSE LET words == Words(chunk_text)
           total_words == Len(words)
           n0 == (total_words * self.chunk_overlap_percentage) \div 100
           overlap_word_count == IF n0 = 0 THEN 1 ELSE n0
       IN  Join(<<" ">>, SubSeq(words, 1, overlap_word_count))

\* _calculate_overlap_text
_calculate_overlap_text(self, chunk_text) ==
  IF count_tokens(chunk_text) <= self.overlap_tokens THEN chunk_text
  ELSE LET words == Words(chunk_text)
           total_words == Len(words)
           n0 == (total_words * self.chunk_overlap_percentage) \div 100
           overlap_word_count == IF n0 = 0 THEN 1 ELSE n0
       IN  Join(<<" ">>, SubSeq(words, total_words - overlap_word_count + 1,
                                total_words))

\* _get_screenshot_ids_for_range: screenshot_mapping is a function from
\* start offsets to screenshot ids; the result is built as a set
_get_screenshot_ids_for_range(start_pos, end_pos, screenshot_mapping) ==
  LET positions == DOMAIN screenshot_mapping
      NextPos(pos) == {q \in positions : q > pos /\
                         \A r \in positions : r > pos => q <= r}
  IN  {screenshot_mapping[pos] : pos \in {p \in positions : p <= end_pos}}
      \cup
      {screenshot_mapping[q] :
         q \in {n \in positions : n <= end_pos /\
                  \E pos \in positions :
                    pos <= end_pos /\ pos >= start_pos /\ n \in NextPos(pos)}}

\* a faulty ChunkMetadata: the sequence number counts from 0
ChunkMetadata_zero_based(chunk_text, chunk_sequence, screenshot_ids, start_position, end_position) ==
  [chunk_text |-> chunk_text,
   chunk_sequence |-> chunk_sequence - 1,
   screenshot_ids |-> screenshot_ids,
   start_position |-> start_position,
   end_position |-> end_position,
   token_count |-> count_tokens(chunk_text)]

\* ChunkMetadata: the record of one chunk
ChunkMetadata(chunk_text, chunk_sequence, screenshot_ids, start_position, end_position) ==
  [chunk_text |-> chunk_text,
   chunk_sequence |-> chunk_sequence,
   screenshot_ids |-> screenshot_ids,
   start_position |-> start_position,
   end_position |-> end_position,
   token_count |-> count_tokens(chunk_text)]

\* the for-loop of _build_chunks_with_overlap over paragraphs[i..]
RECURSIVE BuildLoop(_, _, _, _, _, _, _)
BuildLoop(self, paragraphs, i, mapping, chunks, cur, st) ==
  IF i > Len(paragraphs) THEN [chunks |-> chunks, cur |-> cur, st |-> st]
  ELSE
    LET paragraph == paragraphs[i]
        potential_chunk == IF cur # <<>>
                           THEN Join(BlankLine, Append(cur, paragraph))
                           ELSE paragraph
        potential_tokens == count_tokens(potential_chunk)
    IN  IF potential_tokens > self.chunk_size_tokens /\ cur # <<>>
        THEN LET chunk_text == Join(BlankLine, cur)
                 chunk_start == st.text_position
                 chunk_end == st.text_position + Len(chunk_text)
                 meta == ChunkMetadata(chunk_text, st.chunk_sequence,
                           _get_screenshot_ids_for_range(chunk_start,
                              chunk_end, mapping),
                           chunk_start, chunk_end)
                 overlap_text == _calculate_overlap_text(self, chunk_text)
             IN  BuildLoop(self, paragraphs, i + 1, mapping,
                           Append(chunks, meta),
                           <<overlap_text, paragraph>>,
                           [chunk_sequence |-> st.chunk_sequence + 1,
                            text_position |-> chunk_end])
        ELSE BuildLoop(self, paragraphs, i + 1, mapping, chunks,
                       Append(cur, paragraph), st)

\* a faulty _build_chunks_with_overlap: the paragraphs still held when the
\* loop ends are not emitted
_build_chunks_with_overlap_without_last(self, paragraphs, mapping) ==
  BuildLoop(self, paragraphs, 1, mapping, <<>>, <<>>,
            [chunk_sequence |-> 1, text_position |-> 0]).chunks

\* a faulty _build_chunks_with_overlap: paragraphs are never accumulated,
\* each one is a chunk of its own
_build_chunks_with_overlap_one_per_paragraph(self, paragraphs, mapping) ==
  [k \in 1..Len(paragraphs) |->
     ChunkMetadata(paragraphs[k], k,
       _get_screenshot_ids_for_range(0, Len(paragraphs[k]), mapping),
       0, Len(paragraphs[k]))]

\* _build_chunks_with_overlap
_build_chunks_with_overlap(self, paragraphs, mapping) ==
  LET r == BuildLoop(self, paragraphs, 1, mapping, <<>>, <<>>,
                     [chunk_sequence |-> 1, text_position |-> 0])
  IN  IF r.cur # <<>>
      THEN LET chunk_text == Join(BlankLine, r.cur)
               chunk_start == IF r.chunks # <<>> THEN r.st.text_position ELSE 0
               chunk_end == chunk_start + Len(chunk_text)
           IN  Append(r.chunks,
                 ChunkMetadata(chunk_text, r.st.chunk_sequence,
                   _get_screenshot_ids_for_range(chunk_start, chunk_end,
                                                 mapping),
                   chunk_start, chunk_end))
      ELSE r.chunks

\* a faulty chunk_extracted_text: only the empty text is answered with no
\* chunk, a text without a paragraph gives one empty chunk
chunk_extracted_text_blank_chunk(self, text, screenshot_mapping) ==
  IF text = <<>> THEN <<>>
  ELSE IF _split_into_paragraphs(text) = <<>>
  THEN <<ChunkMetadata(<<>>, 1,
           _get_screenshot_ids_for_range(0, 0, screenshot_mapping), 0, 0)>>
  ELSE _build_chunks_with_overlap(self, _split_into_paragraphs(text),
                                  screenshot_mapping)

\* chunk_extracted_text (no internal step of the model raises, so the
\* ChunkingError wrapper of lines 152-159 is applied by the callers that
\* inject a chunker failure)
chunk_extracted_text(self, text, screenshot_mapping) ==
  IF text = <<>> \/ Strip(text) = <<>> THEN <<>>
  ELSE _build_chunks_with_overlap(self, _split_into_paragraphs(text),
                                  screenshot_mapping)

\* ------------------------------------------------------------------------
\* EmbeddingGenerator: batching and retry
\* ------------------------------------------------------------------------

\* What one provider call (client.embeddings.create) can do.  A provider
\* script lists the outcomes of successive calls; calls after the end of
\* the script succeed.
Outcomes == {"ok", "rate_limit", "server_error", "other_error"}

\* Further things a provider call can do: a client error (HTTP 400) whose
\* message happens to contain the digits 500, a response with one vector
\* too few, a response whose last vector is one component short
ExtraOutcomes == {"client_error", "ok_short", "ok_wrong_width"}

AllOutcomes == Outcomes \cup ExtraOutcomes

\* the 5xx-class errors of the provider explored: HTTP 500 and HTTP 504
ServerErrors == {"server_error", "gateway_timeout"}

\* the outcomes in which client.embeddings.create returns a response
SuccessOutcomes == {"ok", "ok_short", "ok_wrong_width"}

\* the exception a failing provider call raises
ProviderException(outcome) ==
  CASE outcome = "rate_limit" ->
         [type |-> "RateLimitError", text |-> <<"Rate limit exceeded">>]
    [] outcome = "server_error" ->
         [type |-> "Exception",
          text |-> <<"Error code: ", "500", " - Internal Server Error">>]
    [] outcome = "gateway_timeout" ->
         [type |-> "Exception",
          text |-> <<"Error code: ", "504", " - Gateway Timeout">>]
    [] outcome = "client_error" ->
         [type |-> "Exception",
          text |-> <<"Error code: 400 - maximum context length is 8192 tokens, requested 8", "500", " tokens">>]
    [] OTHER ->
         [type |-> "Exception", text |-> <<"Invalid request">>]

\* the test of line 210: "500", "502" or "503" occurs in str(e); a message
\* is a sequence of fragments, cut so that an occurrence is a fragment
MentionsServerError(text) ==
  \E i \in 1..Len(text) : text[i] \in {"500", "502", "503"}

\* the native width of the vectors of a model
Dimensions(model) ==
  IF model = "text-embedding-3-small" THEN 1536 ELSE 3072

\* the vector the provider returns for one text
Vector(model, text) ==
  [model |-> model, text |-> text, dims |-> Dimensions(model)]

\* response.data of a call that returns, as the list of its embeddings
ProviderResponse(model, texts, outcome) ==
  LET full == [i \in 1..Len(texts) |-> Vector(model, texts[i])]
  IN  CASE outcome = "ok_short" -> SubSeq(full, 1, Len(full) - 1)
        [] outcome = "ok_wrong_width" ->
             [full EXCEPT ![Len(full)].dims = @ - 1]
        [] OTHER -> full

\* a faulty EmbeddingGenerator.__init__: the requested batch size is taken
\* as it is
EmbeddingGenerator_without_cap(model, batch_size) ==
  [embedding_model |-> model,
   embedding_dimensions |-> Dimensions(model),
   batch_size |-> batch_size]

\* EmbeddingGenerator.__init__
EmbeddingGenerator(model, batch_size) ==
  [embedding_model |-> model,
   embedding_dimensions |-> Dimensions(model),
   batch_size |-> IF batch_size < MaxBatchSize THEN batch_size
                  ELSE MaxBatchSize]

Raised(type, text, calls, sleeps, rest) ==
  [ok |-> FALSE, embeddings |-> <<>>,
   exc |-> [type |-> type, text |-> text],
   calls |-> calls, sleeps |-> sleeps, rest |-> rest]

NoException == [type |-> "none", text |-> <<>>]

\* the retry loop of _generate_batch_embeddings, from the given attempt;
\* delays are in seconds
RECURSIVE RetryLoop(_, _, _, _, _, _, _)
RetryLoop(self, texts, script, max_retries, attempt, delay, sleeps) ==
  IF attempt > max_retries
  THEN Raised("EmbeddingGenerationError",
              <<"Failed after ", max_retries + 1, " attempts">>,
              attempt, sleeps, script)
  ELSE
    LET outcome == IF script = <<>> THEN "ok" ELSE Head(script)
        rest == IF script = <<>> THEN <<>> ELSE Tail(script)
        e == ProviderException(outcome)
    IN  CASE outcome \in SuccessOutcomes ->
               [ok |-> TRUE,
                embeddings |-> ProviderResponse(self.embedding_model, texts,
                                                outcome),
                exc |-> NoException,
                calls |-> attempt + 1, sleeps |-> sleeps, rest |-> rest]
          [] outcome \notin SuccessOutcomes /\ e.type = "RateLimitError" ->
               IF attempt = max_retries
               THEN Raised("OpenAIRateLimitError",
                           <<"Rate limit exceeded after ", max_retries + 1,
                             " attempts">>,
                           attempt + 1, sleeps, rest)
               ELSE RetryLoop(self, texts, rest, max_retries, attempt + 1,
                              delay * 2, Append(sleeps, delay))
          [] outcome \notin SuccessOutcomes /\ e.type # "RateLimitError"
                           /\ MentionsServerError(e.text) ->
               IF attempt = max_retries
               THEN Raised("EmbeddingGenerationError",
                           <<"Server error after ", max_retries + 1,
                             " attempts: ">> \o e.text,
                           attempt + 1, sleeps, rest)
               ELSE RetryLoop(self, texts, rest, max_retries, attempt + 1,
                              delay, Append(sleeps, 2))
          [] OTHER ->
               Raised("EmbeddingGenerationError",
                      <<"Embedding generation error: ">> \o e.text,
                      attempt + 1, sleeps, rest)

\* a faulty _generate_batch_embeddings: the loop gives up one attempt early
_generate_batch_embeddings_one_attempt_short(self, texts, script, max_retries) ==
  RetryLoop(self, texts, script, max_retries - 1, 0, 1, <<>>)

\* _generate_batch_embeddings
_generate_batch_embeddings(self, texts, script, max_retries) ==
  RetryLoop(self, texts, script, max_retries, 0, 1, <<>>)

\* the batch loop of generate_embeddings, from batch number batch_num
\* (0-based); batch_calls lists the provider calls made per batch, batches
\* what each batch was given: its texts, the number of vectors accumulated
\* when it started, its calls and its sleeps
RECURSIVE BatchLoop(_, _, _, _, _, _, _, _)
BatchLoop(self, texts, script, batch_num, all_embeddings, batch_calls, sleeps, batches) ==
  LET n == Len(texts)
      total_batches == (n + self.batch_size - 1) \div self.batch_size
  IN  IF batch_num >= total_batches
      THEN [ok |-> TRUE, embeddings |-> all_embeddings, exc |-> NoException,
            cause |-> NoException,
            batch_calls |-> batch_calls, sleeps |-> sleeps,
            batches |-> batches, failed_batch |-> 0]
      ELSE
        LET start_idx == batch_num * self.batch_size
            end_idx == IF start_idx + self.batch_size < n
                       THEN start_idx + self.batch_size ELSE n
            batch_texts == SubSeq(texts, start_idx + 1, end_idx)
            r == _generate_batch_embeddings(self, batch_texts, script,
                                            MaxRetries)
            batch == [texts |-> batch_texts,
                      started_with |-> Len(all_embeddings),
                      calls |-> r.calls, sleeps |-> r.sleeps]
        IN  IF r.ok
            THEN BatchLoop(self, texts, r.rest, batch_num + 1,
                           all_embeddings \o r.embeddings,
                           Append(batch_calls, r.calls), sleeps \o r.sleeps,
                           Append(batches, batch))
            ELSE [ok |-> FALSE, embeddings |-> all_embeddings,
                  exc |-> [type |-> "EmbeddingGenerationError",
                           text |-> <<"Failed to generate embeddings: ">>
                                    \o r.exc.text],
                  cause |-> r.exc,
                  batch_calls |-> Append(batch_calls, r.calls),
                  sleeps |-> sleeps \o r.sleeps,
                  batches |-> Append(batches, batch),
                  failed_batch |-> batch_num + 1]

\* generate_embeddings: on success .embeddings is the returned list; on
\* failure .exc is the raised exception (.cause the exception it was raised
\* from) and .embeddings only records what had been accumulated in the
\* local all_embeddings (it is not returned)
generate_embeddings(self, texts, script) ==
  IF texts = <<>>
  THEN [ok |-> TRUE, embeddings |-> <<>>, exc |-> NoException,
        cause |-> NoException,
        batch_calls |-> <<>>, sleeps |-> <<>>, batches |-> <<>>,
        failed_batch |-> 0]
  ELSE BatchLoop(self, texts, script, 0, <<>>, <<>>, <<>>, <<>>)

RECURSIVE SumSeq(_)
SumSeq(s) == IF s = <<>> THEN 0 ELSE Head(s) + SumSeq(Tail(s))

\* all provider scripts of length at most n
ScriptsUpTo(n) == UNION {[1..k -> Outcomes] : k \in 0..n}

\* ------------------------------------------------------------------------
\* The store: books, chunks, embedding configs
\* ------------------------------------------------------------------------

\* the embedding models settings.embedding_model may name
Models == {"text-embedding-3-small", "text-embedding-3-large"}

\* the texts a captured page can hold
PageTexts ==
  { <<"a">>,
    <<"a", "\n", "\n", "b">> }

\* pages (screenshots) of the captured book
MaxPages == 2

\* the Book row KindleAutomation or _get_or_create_book creates
Book(kindle_url, status) ==
  [kindle_url |-> kindle_url, ingestion_status |-> status,
   ingestion_error |-> <<>>, source_type |-> "kindle"]

\* the Chunk row
Chunk(book_id, chunk_text, chunk_sequence, token_count, screenshot_ids, embedding_config_id, embedding) ==
  [book_id |-> book_id, chunk_text |-> chunk_text,
   chunk_sequence |-> chunk_sequence, chunk_token_count |-> token_count,
   screenshot_ids |-> screenshot_ids,
   embedding_config_id |-> embedding_config_id, embedding |-> embedding]

\* a NULL embedding column
NoEmbedding == [model |-> "none", text |-> <<>>]

\* the EmbeddingConfig row; its id is its index in store.configs
EmbeddingConfig(model_name, is_active) ==
  [model_name |-> model_name, is_active |-> is_active]

\* indices of the chunks of a book, in storage order
ChunkIdx(store, b) ==
  {i \in 1..Len(store.chunks) : store.chunks[i].book_id = b}

\* ORDER BY chunk_sequence over a set of chunk indices (ties in storage
\* order)
RECURSIVE OrderBySequence(_, _)
OrderBySequence(store, idx) ==
  IF idx = {} THEN <<>>
  ELSE LET m == CHOOSE i \in idx :
                  \A j \in idx :
                    \/ store.chunks[i].chunk_sequence
                         < store.chunks[j].chunk_sequence
                    \/ /\ store.chunks[i].chunk_sequence
                            = store.chunks[j].chunk_sequence
                       /\ i <= j
       IN  <<m>> \o OrderBySequence(store, idx \ {m})

\* _load_existing_chunks: the chunk rows of the book (as indices)
_load_existing_chunks(store, b) == OrderBySequence(store, ChunkIdx(store, b))

\* _load_extracted_texts: a placeholder, no text is stored
_load_extracted_texts == <<>>

\* a faulty get_or_create_embedding_config: the old active configs are not
\* archived before the insert
get_or_create_embedding_config_no_archive(self, store) ==
  LET existing == {i \in 1..Len(store.configs) :
                     /\ store.configs[i].is_active
                     /\ store.configs[i].model_name = self.embedding_model}
  IN  IF Cardinality(existing) > 1
      THEN [ok |-> FALSE, store |-> store, id |-> 0,
            exc |-> [type |-> "MultipleResultsFound",
                     text |-> <<"Multiple rows were found when one or none was required">>]]
      ELSE IF existing # {}
      THEN [ok |-> TRUE, store |-> store,
            id |-> CHOOSE i \in existing : TRUE,
            exc |-> [type |-> "none", text |-> <<>>]]
      ELSE LET created == Append(store.configs,
                             [model_name |-> self.embedding_model,
                              is_active |-> TRUE])
           IN  [ok |-> TRUE,
                store |-> [store EXCEPT !.configs = created],
                id |-> Len(created),
                exc |-> [type |-> "none", text |-> <<>>]]

\* a faulty get_or_create_embedding_config: the active configs are archived
\* and a config is created without looking for an active one first
get_or_create_embedding_config_always_create(self, store) ==
  LET archived == [i \in 1..Len(store.configs) |->
                     [store.configs[i] EXCEPT !.is_active = FALSE]]
      created == Append(archived,
                    [model_name |-> self.embedding_model,
                     is_active |-> TRUE])
  IN  [ok |-> TRUE,
       store |-> [store EXCEPT !.configs = created],
       id |-> Len(created),
       exc |-> [type |-> "none", text |-> <<>>]]

\* get_or_create_embedding_config on the working copy `store`
get_or_create_embedding_config(self, store) ==
  LET existing == {i \in 1..Len(store.configs) :
                     /\ store.configs[i].is_active
                     /\ store.configs[i].model_name = self.embedding_model}
  IN  IF Cardinality(existing) > 1
      THEN [ok |-> FALSE, store |-> store, id |-> 0,
            exc |-> [type |-> "MultipleResultsFound",
                     text |-> <<"Multiple rows were found when one or none was required">>]]
      ELSE IF existing # {}
      THEN [ok |-> TRUE, store |-> store,
            id |-> CHOOSE i \in existing : TRUE, exc |-> NoException]
      ELSE LET archived == [i \in 1..Len(store.configs) |->
                              [store.configs[i] EXCEPT !.is_active = FALSE]]
               created == Append(archived,
                             EmbeddingConfig(self.embedding_model, TRUE))
           IN  [ok |-> TRUE,
                store |-> [store EXCEPT !.configs = created],
                id |-> Len(created), exc |-> NoException]

\* number of active configs in a store
ActiveConfigs(store) ==
  {i \in 1..Len(store.configs) : store.configs[i].is_active}

\* a faulty _determine_start_stage: 'completed' is missing from the table
_determine_start_stage_without_completed(status) ==
  CASE status = "in_progress" -> 1
    [] status = "screenshots_complete" -> 2
    [] status = "text_extracted" -> 3
    [] status = "chunks_created" -> 4
    [] status = "embeddings_generated" -> 5
    [] OTHER -> 1

\* a faulty _determine_start_stage: an unknown status maps to the last stage
_determine_start_stage_default_last(status) ==
  CASE status = "in_progress" -> 1
    [] status = "screenshots_complete" -> 2
    [] status = "text_extracted" -> 3
    [] status = "chunks_created" -> 4
    [] status = "embeddings_generated" -> 5
    [] status = "completed" -> 5
    [] OTHER -> 5

\* a faulty _determine_start_stage: a completed book is embedded again
_determine_start_stage_completed_at_4(status) ==
  CASE status = "in_progress" -> 1
    [] status = "screenshots_complete" -> 2
    [] status = "text_extracted" -> 3
    [] status = "chunks_created" -> 4
    [] status = "embeddings_generated" -> 5
    [] status = "completed" -> 4
    [] OTHER -> 1

\* _determine_start_stage
_determine_start_stage(status) ==
  CASE status = "in_progress" -> 1
    [] status = "screenshots_complete" -> 2
    [] status = "text_extracted" -> 3
    [] status = "chunks_created" -> 4
    [] status = "embeddings_generated" -> 5
    [] status = "completed" -> 5
    [] OTHER -> 1

\* ------------------------------------------------------------------------
\* IngestionPipeline as a state machine
\* ------------------------------------------------------------------------

VARIABLES
  db,       \* the committed store
  sess,     \* the working copy of the open session (= db when none is open)
  shots,    \* the Screenshot rows: book id -> sequence of page records
  run,      \* the process invocation in flight, or the last finished one
  hist,     \* history: what earlier invocations did, per book
  nruns,    \* process invocations started so far
  txn,      \* concurrent sessions working on the embedding configs
  call      \* one call of a pure function: its inputs and its result

vars == <<db, sess, shots, run, hist, nruns, txn, call>>

\* the variables the pipeline never touches
nonPipeline == <<txn, call>>

\* the value of a variable that a specification does not use
Unused == "unused"

\* ids of the books the pipeline can meet; "b1" was captured by
\* KindleAutomation under url "u1", "b2" is what run_pipeline creates for
\* the unknown url "u2" (and is not found before that)
BookIds == {"b1", "b2"}

Urls == {"u1", "u2"}

NewBookId == "b2"

\* statuses KindleAutomation or the Book default can leave on a captured book
InitStatuses == {"in_progress", "screenshots_complete", "failed", "pending"}

Screenshot(id, sequence_number, page) ==
  [id |-> id, sequence_number |-> sequence_number, page |-> page]

IdleRun ==
  [pc |-> "idle", entry |-> "none", book |-> "none", model |-> "none",
   start_stage |-> 0, start_status |-> "none",
   screenshots |-> <<>>, extracted_texts |-> <<>>, chunks |-> <<>>,
   outcome |-> "none", raised |-> NoException,
   extract_calls |-> <<>>, chunker_calls |-> 0, provider_calls |-> 0,
   chunks_created |-> 0, stages_run |-> {}, failed_batch |-> 0,
   statuses |-> <<>>,
   chunks_at_start |-> <<>>, done_at_start |-> {}, resumed |-> FALSE,
   after_failure |-> FALSE]

EmptyHist ==
  [done |-> [b \in BookIds |-> {}],
   pure |-> [b \in BookIds |-> TRUE],
   last |-> [b \in BookIds |-> "none"]]

Init ==
  /\ \E n \in 1..MaxPages :
       \E pg \in [1..n -> PageTexts] :
         shots = [b \in BookIds |->
                    IF b = "b1" THEN [i \in 1..n |-> Screenshot(i, i, pg[i])]
                    ELSE <<>>]
  /\ \E st \in InitStatuses :
       db = [books |-> [b \in {"b1"} |-> Book("u1", st)],
             chunks |-> <<>>,
             configs |-> <<>>]
  /\ sess = db
  /\ run = IdleRun
  /\ hist = EmptyHist
  /\ nruns = 0
  /\ txn = Unused
  /\ call = Unused

\* the bookkeeping of an invocation that starts on book b
StartRun(entry, b, model, store) ==
  LET status == store.books[b].ingestion_status
  IN  [IdleRun EXCEPT
         !.pc = "stage1", !.entry = entry, !.book = b, !.model = model,
         !.start_status = status,
         !.start_stage = _determine_start_stage(status),
         !.chunks_at_start = db.chunks,
         !.done_at_start = hist.done[b],
         !.resumed = (hist.last[b] = "interrupted" /\ hist.pure[b]),
         !.after_failure = (hist.last[b] = "raised")]

\* a faulty process_existing_book: a book that is not found is created
ProcessExistingBook_creating(b, model) ==
  /\ run.pc = "idle"
  /\ nruns < MaxRuns
  /\ nruns' = nruns + 1
  /\ IF b \notin DOMAIN db.books
     THEN LET created == [db EXCEPT !.books =
                            [x \in DOMAIN db.books \cup {b} |->
                               IF x = b THEN Book("none", "in_progress")
                               ELSE db.books[x]]]
          IN  /\ db' = created
              /\ sess' = created
              /\ run' = [IdleRun EXCEPT
                           !.entry = "process_existing_book", !.book = b,
                           !.outcome = "not_found",
                           !.raised = [type |-> "ValueError",
                                       text |-> <<"Book with ID ", b,
                                                  " not found">>]]
              /\ UNCHANGED hist
     ELSE /\ run' = StartRun("process_existing_book", b, model, db)
          /\ hist' = [hist EXCEPT
                        !.pure[b] = @ /\ hist.last[b] # "raised"]
          /\ UNCHANGED <<db, sess>>
  /\ UNCHANGED <<shots, nonPipeline>>

\* process_existing_book, lines 91-109: load the book, pick the start stage
ProcessExistingBook(b, model) ==
  /\ run.pc = "idle"
  /\ nruns < MaxRuns
  /\ nruns' = nruns + 1
  /\ IF b \notin DOMAIN db.books
     THEN /\ run' = [IdleRun EXCEPT
                       !.entry = "process_existing_book", !.book = b,
                       !.outcome = "not_found",
                       !.raised = [type |-> "ValueError",
                                   text |-> <<"Book with ID ", b,
                                              " not found">>]]
          /\ UNCHANGED <<db, sess, hist>>
     ELSE /\ run' = StartRun("process_existing_book", b, model, db)
          /\ hist' = [hist EXCEPT
                        !.pure[b] = @ /\ hist.last[b] # "raised"]
          /\ UNCHANGED <<db, sess>>
  /\ UNCHANGED <<shots, nonPipeline>>

\* run_pipeline, lines 223-227, with _get_or_create_book
RunPipeline(kindle_url, model) ==
  /\ run.pc = "idle"
  /\ nruns < MaxRuns
  /\ nruns' = nruns + 1
  /\ LET found == {b \in DOMAIN db.books :
                     db.books[b].kindle_url = kindle_url}
     IN  IF found # {}
         THEN LET b == CHOOSE x \in found : TRUE
              IN  /\ run' = StartRun("run_pipeline", b, model, db)
                  /\ hist' = [hist EXCEPT !.pure[b] = FALSE]
                  /\ UNCHANGED sess
         ELSE LET b == NewBookId
                  created == [db EXCEPT !.books =
                                [x \in DOMAIN db.books \cup {b} |->
                                   IF x = b
                                   THEN Book(kindle_url, "in_progress")
                                   ELSE db.books[x]]]
              IN  /\ sess' = created
                  /\ run' = StartRun("run_pipeline", b, model, created)
                  /\ hist' = [hist EXCEPT !.pure[b] = FALSE]
  /\ UNCHANGED <<db, shots, nonPipeline>>

\* a faulty SetStatus: the new status is not written
SetStatus_without_write(store, b, status) == store

\* book.ingestion_status = status on the working copy
SetStatus(store, b, status) ==
  [store EXCEPT !.books[b].ingestion_status = status]

\* a faulty FailRun: the handler sets the fields but does not commit
FailRun_without_commit(store, e, r) ==
  /\ sess' = [store EXCEPT
                !.books[r.book].ingestion_status = "failed",
                !.books[r.book].ingestion_error = e.text]
  /\ db' = db
  /\ run' = [r EXCEPT !.pc = "idle", !.outcome = "raised", !.raised = e,
                      !.statuses = Append(@, "failed")]
  /\ hist' = [hist EXCEPT !.last[r.book] = "raised"]

\* the except-branch of process_existing_book / run_pipeline (lines 168-181,
\* 288-301): write 'failed' and str(e), commit the session as it is, re-raise
FailRun(store, e, r) ==
  LET failed == [store EXCEPT
                   !.books[r.book].ingestion_status = "failed",
                   !.books[r.book].ingestion_error = e.text]
  IN  /\ sess' = failed
      /\ db' = failed
      /\ run' = [r EXCEPT !.pc = "idle", !.outcome = "raised", !.raised = e,
                          !.statuses = Append(@, "failed")]
      /\ hist' = [hist EXCEPT !.last[r.book] = "raised"]

\* _load_existing_screenshots
_load_existing_screenshots(b) == shots[b]

\* Stage 1
Stage1 ==
  /\ run.pc = "stage1"
  /\ IF run.entry = "run_pipeline" /\ run.start_stage <= 1
     THEN \* _stage_screenshot_capture: a placeholder that only advances
          \* the status and returns no screenshot
          LET s1 == SetStatus(sess, run.book, "screenshots_complete")
          IN  /\ sess' = s1
              /\ db' = s1
              /\ run' = [run EXCEPT !.pc = "stage2", !.screenshots = <<>>,
                           !.stages_run = @ \cup {1},
                           !.statuses = Append(@, "screenshots_complete")]
     ELSE /\ run' = [run EXCEPT !.pc = "stage2",
                       !.screenshots = _load_existing_screenshots(run.book)]
          /\ UNCHANGED <<db, sess>>
  /\ UNCHANGED <<shots, hist, nruns, nonPipeline>>

\* a faulty _stage_text_extraction: after a screenshot failed the later
\* ones are still extracted before the error is raised
StageTextExtraction_extracting_on(fail_at) ==
  LET n == Len(run.screenshots)
      r1 == [run EXCEPT
               !.extract_calls = [i \in 1..n |-> run.screenshots[i].id],
               !.stages_run = @ \cup {2}]
  IN  IF fail_at = 0
      THEN LET s1 == SetStatus(sess, run.book, "text_extracted")
           IN  /\ sess' = s1
               /\ db' = s1
               /\ run' = [r1 EXCEPT !.pc = "stage3",
                            !.extracted_texts =
                               [i \in 1..n |->
                                  [seq_num |-> run.screenshots[i].sequence_number,
                                   text |-> run.screenshots[i].page]],
                            !.statuses = Append(@, "text_extracted")]
               /\ hist' = [hist EXCEPT !.done[run.book] = @ \cup {2}]
      ELSE FailRun(sess,
                   [type |-> "TextExtractionError",
                    text |-> <<"Failed to extract text from screenshot ",
                               run.screenshots[fail_at].id, ": ",
                               "Tesseract OCR failed">>],
                   r1)

\* _stage_text_extraction: fail_at = 0 extracts every screenshot, fail_at = i
\* makes extract_text_from_screenshot raise on the i-th one
StageTextExtraction(fail_at) ==
  LET n == Len(run.screenshots)
      last == IF fail_at = 0 THEN n ELSE fail_at
      r1 == [run EXCEPT
               !.extract_calls = [i \in 1..last |-> run.screenshots[i].id],
               !.stages_run = @ \cup {2}]
  IN  IF fail_at = 0
      THEN LET s1 == SetStatus(sess, run.book, "text_extracted")
           IN  /\ sess' = s1
               /\ db' = s1
               /\ run' = [r1 EXCEPT !.pc = "stage3",
                            !.extracted_texts =
                               [i \in 1..n |->
                                  [seq_num |-> run.screenshots[i].sequence_number,
                                   text |-> run.screenshots[i].page]],
                            !.statuses = Append(@, "text_extracted")]
               /\ hist' = [hist EXCEPT !.done[run.book] = @ \cup {2}]
      ELSE FailRun(sess,
                   [type |-> "TextExtractionError",
                    text |-> <<"Failed to extract text from screenshot ",
                               run.screenshots[fail_at].id, ": ",
                               "Tesseract OCR failed">>],
                   r1)

\* Stage 2
Stage2 ==
  /\ run.pc = "stage2"
  /\ IF run.start_stage <= 2
     THEN \E fail_at \in 0..Len(run.screenshots) : StageTextExtraction(fail_at)
     ELSE /\ run' = [run EXCEPT !.pc = "stage3",
                                !.extracted_texts = _load_extracted_texts]
          /\ UNCHANGED <<db, sess, hist>>
  /\ UNCHANGED <<shots, nruns, nonPipeline>>

\* lines 425-427: the extracted texts, sorted by sequence number, joined
\* with blank lines
FullText(sorted_texts) ==
  Join(BlankLine, [i \in 1..Len(sorted_texts) |-> sorted_texts[i].text])

\* lines 429-438: start offset of each page -> screenshot id
RECURSIVE MappingLoop(_, _, _, _)
MappingLoop(sorted_texts, screenshots, i, char_position) ==
  IF i > Len(sorted_texts) THEN {}
  ELSE LET hit == {k \in 1..Len(screenshots) :
                     screenshots[k].sequence_number = sorted_texts[i].seq_num}
           rest == MappingLoop(sorted_texts, screenshots, i + 1,
                     char_position + Len(sorted_texts[i].text) + 2)
       IN  IF hit = {} THEN rest
           ELSE {<<char_position,
                   screenshots[CHOOSE k \in hit :
                                 \A j \in hit : k <= j].id>>} \cup rest

ScreenshotMapping(sorted_texts, screenshots) ==
  LET pairs == MappingLoop(sorted_texts, screenshots, 1, 0)
  IN  [pos \in {pr[1] : pr \in pairs} |->
         (CHOOSE pr \in pairs : pr[1] = pos)[2]]

\* lines 449-462: the Chunk rows added to the session for the metadatas
NewChunks(b, chunk_metadatas, config_id) ==
  [i \in 1..Len(chunk_metadatas) |->
     Chunk(b, chunk_metadatas[i].chunk_text,
           chunk_metadatas[i].chunk_sequence,
           chunk_metadatas[i].token_count,
           chunk_metadatas[i].screenshot_ids, config_id, NoEmbedding)]

\* _stage_semantic_chunking: chunker_fails makes chunk_extracted_text raise
StageSemanticChunking(chunker_fails) ==
  LET full_text == FullText(run.extracted_texts)
      mapping == ScreenshotMapping(run.extracted_texts, run.screenshots)
      chunker == SemanticChunker(ChunkSizeTokens, OverlapPct)
      r1 == [run EXCEPT !.chunker_calls = @ + 1, !.stages_run = @ \cup {3}]
      wrap(text) == [type |-> "ChunkingError",
                     text |-> <<"Failed to chunk text: ">> \o text]
  IN  IF chunker_fails
      THEN /\ Strip(full_text) # <<>>
           /\ FailRun(sess,
                      wrap(<<"Failed to chunk text: ", "tokenizer error">>),
                      r1)
      ELSE
        LET chunk_metadatas == chunk_extracted_text(chunker, full_text, mapping)
            cfg == get_or_create_embedding_config(
                     EmbeddingGenerator(run.model, BatchSize), sess)
        IN  IF ~cfg.ok
            THEN FailRun(sess, wrap(cfg.exc.text), r1)
            ELSE
              LET first == Len(cfg.store.chunks)
                  added == NewChunks(run.book, chunk_metadatas, cfg.id)
                  s1 == SetStatus([cfg.store EXCEPT !.chunks = @ \o added],
                                  run.book, "chunks_created")
              IN  /\ sess' = s1
                  /\ db' = s1
                  /\ run' = [r1 EXCEPT !.pc = "stage4",
                               !.chunks = [i \in 1..Len(added) |-> first + i],
                               !.chunks_created = @ + Len(added),
                               !.statuses = Append(@, "chunks_created")]
                  /\ hist' = [hist EXCEPT !.done[run.book] = @ \cup {3}]

\* Stage 3
Stage3 ==
  /\ run.pc = "stage3"
  /\ IF run.start_stage <= 3
     THEN \E chunker_fails \in BOOLEAN : StageSemanticChunking(chunker_fails)
     ELSE /\ run' = [run EXCEPT !.pc = "stage4",
                       !.chunks = _load_existing_chunks(sess, run.book)]
          /\ UNCHANGED <<db, sess, hist>>
  /\ UNCHANGED <<shots, nruns, nonPipeline>>

\* lines 510-512: zip(chunks, embeddings, strict=False) over chunk rows
AssignEmbeddings(store, chunks, embeddings, config_id) ==
  LET n == IF Len(chunks) < Len(embeddings) THEN Len(chunks)
           ELSE Len(embeddings)
      pos(i) == CHOOSE k \in 1..n : chunks[k] = i
  IN  [store EXCEPT !.chunks =
         [i \in 1..Len(store.chunks) |->
            IF \E k \in 1..n : chunks[k] = i
            THEN [store.chunks[i] EXCEPT
                    !.embedding = embeddings[pos(i)],
                    !.embedding_config_id = config_id]
            ELSE store.chunks[i]]]

\* _stage_embedding_generation: script is what the provider does
StageEmbeddingGeneration(script) ==
  LET generator == EmbeddingGenerator(run.model, BatchSize)
      cfg == get_or_create_embedding_config(generator, sess)
      wrap(text) == [type |-> "EmbeddingGenerationError",
                     text |-> <<"Failed to generate embeddings: ">> \o text]
      r1 == [run EXCEPT !.stages_run = @ \cup {4}]
  IN  IF ~cfg.ok
      THEN /\ script = <<>>
           /\ FailRun(sess, wrap(cfg.exc.text), r1)
      ELSE
        LET chunk_texts == [i \in 1..Len(run.chunks) |->
                              cfg.store.chunks[run.chunks[i]].chunk_text]
            g == generate_embeddings(generator, chunk_texts, script)
            r2 == [r1 EXCEPT !.provider_calls = @ + SumSeq(g.batch_calls),
                             !.failed_batch = g.failed_batch]
        IN  /\ Len(script) <= SumSeq(g.batch_calls)
            /\ IF ~g.ok
               THEN FailRun(cfg.store, wrap(g.exc.text), r2)
               ELSE LET s1 == SetStatus(
                                AssignEmbeddings(cfg.store, run.chunks,
                                                 g.embeddings, cfg.id),
                                run.book, "embeddings_generated")
                    IN  /\ sess' = s1
                        /\ db' = s1
                        /\ run' = [r2 EXCEPT !.pc = "stage5",
                                     !.statuses =
                                        Append(@, "embeddings_generated")]
                        /\ hist' = [hist EXCEPT
                                      !.done[run.book] = @ \cup {4}]

\* Stage 4
Stage4 ==
  /\ run.pc = "stage4"
  /\ IF run.start_stage <= 4
     THEN \E script \in ScriptsUpTo(MaxStageScript) : StageEmbeddingGeneration(script)
     ELSE /\ run' = [run EXCEPT !.pc = "stage5"]
          /\ UNCHANGED <<db, sess, hist>>
  /\ UNCHANGED <<shots, nruns, nonPipeline>>

\* Stage 5: _stage_finalization, then the invocation returns the book
Stage5 ==
  /\ run.pc = "stage5"
  /\ LET s1 == SetStatus(sess, run.book, "completed")
     IN  /\ sess' = s1
         /\ db' = s1
  /\ run' = [run EXCEPT !.pc = "idle", !.outcome = "returned",
                        !.stages_run = @ \cup {5},
                        !.statuses = Append(@, "completed")]
  /\ hist' = [hist EXCEPT !.last[run.book] = "returned"]
  /\ UNCHANGED <<shots, nruns, nonPipeline>>

\* the process dies between two stages: the session is lost with whatever
\* it had not committed
Interrupt ==
  /\ run.pc \in {"stage2", "stage3", "stage4", "stage5"}
  /\ sess' = db
  /\ run' = [run EXCEPT !.pc = "idle", !.outcome = "interrupted"]
  /\ hist' = [hist EXCEPT !.last[run.book] = "interrupted"]
  /\ UNCHANGED <<db, shots, nruns, nonPipeline>>

Next ==
  \/ \E b \in BookIds, m \in Models : ProcessExistingBook(b, m)
  \/ \E u \in Urls, m \in Models : RunPipeline(u, m)
  \/ Stage1
  \/ Stage2
  \/ Stage3
  \/ Stage4
  \/ Stage5
  \/ Interrupt

Spec == Init /\ [][Next]_vars

\* ------------------------------------------------------------------------
\* Properties of the pipeline (checked under Spec)
\* ------------------------------------------------------------------------

StageErrors ==
  {"TextExtractionError", "ChunkingError", "EmbeddingGenerationError"}

IntermediateStatuses ==
  {"screenshots_complete", "text_extracted", "chunks_created",
   "embeddings_generated"}

\* C1: when a stage exception reaches the caller of process_existing_book or
\* run_pipeline, the committed status of the book is 'failed', its committed
\* error text is the text of that exception, and the exception the caller
\* sees is the stage's exception.
C1_FailedPersistedAndReraised ==
  run.outcome = "raised" =>
    /\ run.raised.type \in StageErrors
    /\ db.books[run.book].ingestion_status = "failed"
    /\ db.books[run.book].ingestion_error = run.raised.text

C1_Witness ==
  /\ run.outcome = "raised"
  /\ run.entry = "run_pipeline"
  /\ run.raised.type = "EmbeddingGenerationError"
  /\ db.books[run.book].ingestion_status = "failed"

\* C2: an invocation that follows a failed one re-executes no stage that had
\* completed before, and leaves the chunks persisted before it unchanged and
\* unduplicated.
C2_FailedRunResumes ==
  (run.after_failure /\ run.entry # "none") =>
    /\ run.stages_run \cap run.done_at_start = {}
    /\ Len(db.chunks) >= Len(run.chunks_at_start)
    /\ SubSeq(db.chunks, 1, Len(run.chunks_at_start)) = run.chunks_at_start
    /\ \A i, j \in ChunkIdx(db, run.book) :
         db.chunks[i].chunk_sequence = db.chunks[j].chunk_sequence => i = j

\* the chunks an uninterrupted process_existing_book leaves for book b
ExpectedChunks(b) ==
  LET texts == [i \in 1..Len(shots[b]) |->
                  [seq_num |-> shots[b][i].sequence_number,
                   text |-> shots[b][i].page]]
      metas == chunk_extracted_text(
                 SemanticChunker(ChunkSizeTokens, OverlapPct),
                 FullText(texts), ScreenshotMapping(texts, shots[b]))
  IN  {[chunk_text |-> metas[i].chunk_text,
        chunk_sequence |-> metas[i].chunk_sequence,
        screenshot_ids |-> metas[i].screenshot_ids] : i \in 1..Len(metas)}

PersistedChunks(b) ==
  {[chunk_text |-> db.chunks[i].chunk_text,
    chunk_sequence |-> db.chunks[i].chunk_sequence,
    screenshot_ids |-> db.chunks[i].screenshot_ids] : i \in ChunkIdx(db, b)}

\* C3: a process_existing_book run that resumes after an interruption at an
\* intermediate status ends with the chunks of an uninterrupted run.
C3_ResumeEquivalence ==
  (/\ run.outcome = "returned"
   /\ run.entry = "process_existing_book"
   /\ run.resumed
   /\ run.start_status \in IntermediateStatuses) =>
    /\ PersistedChunks(run.book) = ExpectedChunks(run.book)
    /\ Cardinality(ChunkIdx(db, run.book))
         = Cardinality(ExpectedChunks(run.book))

\* C4: an invocation on a book whose status is 'completed' calls neither the
\* extractor, the chunker nor the provider, creates no chunk, and leaves the
\* chunks and the status as they were.
C4_CompletedRerunNoWork ==
  (run.entry # "none" /\ run.start_status = "completed") =>
    /\ run.extract_calls = <<>>
    /\ run.chunker_calls = 0
    /\ run.provider_calls = 0
    /\ run.chunks_created = 0
    /\ db.chunks = run.chunks_at_start
    /\ db.books[run.book].ingestion_status = "completed"
    /\ run.outcome # "raised"

C4_Witness ==
  /\ run.start_status = "completed"
  /\ run.outcome = "returned"
  /\ Len(db.chunks) > 1

\* C5: when the provider fails for good on batch k, the vectors of batches
\* 1..k-1 are persisted on their chunks.
C5_CompletedBatchesPersisted ==
  (run.outcome = "raised" /\ run.failed_batch > 1) =>
    Cardinality({k \in 1..Len(run.chunks) :
                   db.chunks[run.chunks[k]].embedding # NoEmbedding})
      >= (run.failed_batch - 1) * BatchSize

\* C6: the start stage of an invocation is 1 for in_progress, 2 for
\* screenshots_complete, 3 for text_extracted, 4 for chunks_created, 5 for
\* embeddings_generated and completed, and 1 for any other status.
C6_StartStageLookup ==
  (run.entry # "none" /\ run.outcome # "not_found") =>
    /\ run.start_status = "in_progress" => run.start_stage = 1
    /\ run.start_status = "screenshots_complete" => run.start_stage = 2
    /\ run.start_status = "text_extracted" => run.start_stage = 3
    /\ run.start_status = "chunks_created" => run.start_stage = 4
    /\ run.start_status = "embeddings_generated" => run.start_stage = 5
    /\ run.start_status = "completed" => run.start_stage = 5
    /\ run.start_status \notin
         {"in_progress", "screenshots_complete", "text_extracted",
          "chunks_created", "embeddings_generated", "completed"}
       => run.start_stage = 1

C6_Witness ==
  /\ run.pc = "stage2"
  /\ run.start_status \in {"failed", "pending"}
  /\ run.start_stage = 1

\* C7: the committed chunks of every book carry the sequence numbers 1..N,
\* each exactly once.
C7_SequenceDense ==
  \A b \in DOMAIN db.books :
    /\ {db.chunks[i].chunk_sequence : i \in ChunkIdx(db, b)}
         = 1..Cardinality(ChunkIdx(db, b))
    /\ \A i, j \in ChunkIdx(db, b) :
         db.chunks[i].chunk_sequence = db.chunks[j].chunk_sequence => i = j

\* ------------------------------------------------------------------------
\* Embedding configs, one call at a time (SpecConfig)
\* ------------------------------------------------------------------------

\* calls explored per behaviour
MaxOps == 3

\* re_embed_book on the working copy `store`; new_model = "none" is None
re_embed_book(self, book_id, new_model, store, script) ==
  LET fail(st, e) == [ok |-> FALSE, store |-> st, exc |-> e, count |-> 0]
      err(text) == [type |-> "EmbeddingGenerationError", text |-> text]
  IN  IF book_id \notin DOMAIN store.books
      THEN fail(store, err(<<"Book ", book_id, " not found">>))
      ELSE
        LET chunks == _load_existing_chunks(store, book_id)
        IN  IF chunks = <<>>
            THEN fail(store, err(<<"No chunks found for book ", book_id>>))
            ELSE
              LET self1 == IF new_model # "none"
                           THEN [self EXCEPT !.embedding_model = new_model]
                           ELSE self
                  cfg == get_or_create_embedding_config(self1, store)
              IN  IF ~cfg.ok THEN fail(store, cfg.exc)
                  ELSE
                    LET chunk_texts == [i \in 1..Len(chunks) |->
                                          store.chunks[chunks[i]].chunk_text]
                        g == generate_embeddings(self1, chunk_texts, script)
                    IN  IF ~g.ok THEN fail(cfg.store, g.exc)
                        ELSE [ok |-> TRUE,
                              store |-> AssignEmbeddings(cfg.store, chunks,
                                          g.embeddings, cfg.id),
                              exc |-> NoException,
                              count |-> Len(chunks)]

\* what the provider does during a re_embed_book call: at most one scripted
\* outcome, among them a response with one vector too few
ReEmbedScripts == ScriptsUpTo(1) \cup {<<"ok_short">>}

\* config tables with at most one active row
ConfigTables ==
  {t \in UNION {[1..n -> [model_name : Models, is_active : BOOLEAN]] :
                  n \in 0..2} :
     Cardinality({i \in DOMAIN t : t[i].is_active}) <= 1}

\* the chunks of a book that was embedded under config 1
EmbeddedChunks(b, configs) ==
  [i \in 1..2 |->
     Chunk(b, <<IF i = 1 THEN "a" ELSE "b">>, i, 1, {}, 1,
           Vector(configs[1].model_name, <<IF i = 1 THEN "a" ELSE "b">>))]

InitConfig ==
  /\ \E t \in ConfigTables :
       \E with_chunks \in BOOLEAN :
         /\ with_chunks => t # <<>>
         /\ db = [books |-> [b \in {"b1"} |-> Book("u1", "completed")],
                  chunks |-> IF with_chunks THEN EmbeddedChunks("b1", t)
                             ELSE <<>>,
                  configs |-> t]
  /\ call = [op |-> "none", model |-> "none", book |-> "none", ok |-> TRUE,
             id |-> 0, n |-> 0, configs_before |-> <<>>]
  /\ sess = Unused
  /\ shots = Unused
  /\ run = Unused
  /\ hist = Unused
  /\ nruns = Unused
  /\ txn = Unused

\* one get_or_create_embedding_config call in a session of its own, which
\* the caller commits
GetOrCreateConfig(model) ==
  /\ call.n < MaxOps
  /\ LET r == get_or_create_embedding_config(
                EmbeddingGenerator(model, BatchSize), db)
     IN  /\ db' = r.store
         /\ call' = [op |-> "get_or_create_embedding_config",
                     model |-> model, book |-> "none", ok |-> r.ok,
                     id |-> r.id, n |-> call.n + 1,
                     configs_before |-> db.configs]
  /\ UNCHANGED <<sess, shots, run, hist, nruns, txn>>

\* one re_embed_book call in a session of its own: committed when it
\* returns; when it raises the caller may commit or roll back what the call
\* had flushed
ReEmbedBook(book_id, settings_model, new_model, script, commit) ==
  /\ call.n < MaxOps
  /\ LET r == re_embed_book(EmbeddingGenerator(settings_model, BatchSize),
                            book_id, new_model, db, script)
     IN  /\ r.ok => commit
         /\ db' = IF commit THEN r.store ELSE db
         /\ call' = [op |-> "re_embed_book",
                     model |-> IF new_model # "none" THEN new_model
                               ELSE settings_model,
                     book |-> book_id, ok |-> r.ok, id |-> 0,
                     n |-> call.n + 1,
                     configs_before |-> db.configs]
  /\ UNCHANGED <<sess, shots, run, hist, nruns, txn>>

NextConfig ==
  \/ \E m \in Models : GetOrCreateConfig(m)
  \/ \E b \in BookIds, sm \in Models, nm \in Models \cup {"none"},
        script \in ReEmbedScripts, commit \in BOOLEAN :
       ReEmbedBook(b, sm, nm, script, commit)

SpecConfig == InitConfig /\ [][NextConfig]_vars

\* C8: after any sequence of get_or_create_embedding_config and
\* re_embed_book calls made one at a time on a store that had at most one
\* active config, at most one config is active.
C8_AtMostOneActive == Cardinality(ActiveConfigs(db)) <= 1

C8_Witness ==
  /\ call.op = "re_embed_book"
  /\ call.ok
  /\ Len(db.configs) = Len(call.configs_before) + 1
  /\ \E i \in DOMAIN call.configs_before : call.configs_before[i].is_active
  /\ Cardinality(ActiveConfigs(db)) = 1

\* ------------------------------------------------------------------------
\* get_or_create_embedding_config from two sessions at once (SpecConc)
\*
\* Each session is a transaction of its own on the engine of
\* db/session.py, which sets no isolation level: statements see the rows
\* committed when they start plus the session's own writes, an UPDATE waits
\* for a row another open transaction has updated and then re-checks that
\* row only.
\* ------------------------------------------------------------------------

Sessions == {1, 2}

NoConfig == [model_name |-> "none", is_active |-> FALSE]

InitConc ==
  /\ \E t \in {c \in ConfigTables : Len(c) <= 1} :
       db = [books |-> <<>>, chunks |-> <<>>, configs |-> t]
  /\ \E ms \in [Sessions -> Models] :
       txn = [s \in Sessions |->
                [pc |-> "select", model |-> ms[s], targets |-> {},
                 deactivated |-> {}, new_config |-> NoConfig,
                 result |-> "none"]]
  /\ sess = Unused
  /\ shots = Unused
  /\ run = Unused
  /\ hist = Unused
  /\ nruns = Unused
  /\ call = Unused

\* lines 267-281: SELECT the active config of the model
TxnSelect(s) ==
  /\ txn[s].pc = "select"
  /\ LET existing == {i \in 1..Len(db.configs) :
                        /\ db.configs[i].is_active
                        /\ db.configs[i].model_name = txn[s].model}
     IN  txn' = [txn EXCEPT
                   ![s].pc = IF Cardinality(existing) > 1 THEN "done"
                             ELSE IF existing # {} THEN "commit"
                             ELSE "update",
                   ![s].result = IF Cardinality(existing) > 1 THEN "raised"
                                 ELSE IF existing # {} THEN "found"
                                 ELSE "none"]
  /\ UNCHANGED <<db, sess, shots, run, hist, nruns, call>>

\* lines 285-291, first half: the UPDATE statement starts and finds the rows
\* that are active in its snapshot
TxnUpdateBegin(s) ==
  /\ txn[s].pc = "update"
  /\ txn' = [txn EXCEPT ![s].pc = "update_rows",
                        ![s].targets = ActiveConfigs(db)]
  /\ UNCHANGED <<db, sess, shots, run, hist, nruns, call>>

\* lines 285-291, second half: the UPDATE gets the row locks (it waits while
\* another open transaction holds one) and deactivates the rows that are
\* still active
TxnUpdateEnd(s) ==
  /\ txn[s].pc = "update_rows"
  /\ \A o \in Sessions \ {s} :
       txn[o].pc = "done" \/ txn[o].deactivated \cap txn[s].targets = {}
  /\ txn' = [txn EXCEPT
               ![s].pc = "insert",
               ![s].deactivated = {i \in txn[s].targets :
                                     db.configs[i].is_active}]
  /\ UNCHANGED <<db, sess, shots, run, hist, nruns, call>>

\* lines 294-301: add the new active config and flush
TxnInsert(s) ==
  /\ txn[s].pc = "insert"
  /\ txn' = [txn EXCEPT
               ![s].pc = "commit",
               ![s].new_config = EmbeddingConfig(txn[s].model, TRUE),
               ![s].result = "created"]
  /\ UNCHANGED <<db, sess, shots, run, hist, nruns, call>>

\* the caller commits the session
TxnCommit(s) ==
  /\ txn[s].pc = "commit"
  /\ LET archived == [i \in 1..Len(db.configs) |->
                        IF i \in txn[s].deactivated
                        THEN [db.configs[i] EXCEPT !.is_active = FALSE]
                        ELSE db.configs[i]]
     IN  db' = [db EXCEPT !.configs =
                  IF txn[s].new_config = NoConfig THEN archived
                  ELSE Append(archived, txn[s].new_config)]
  /\ txn' = [txn EXCEPT ![s].pc = "done"]
  /\ UNCHANGED <<sess, shots, run, hist, nruns, call>>

NextConc ==
  \/ \E s \in Sessions : TxnSelect(s)
  \/ \E s \in Sessions : TxnUpdateBegin(s)
  \/ \E s \in Sessions : TxnUpdateEnd(s)
  \/ \E s \in Sessions : TxnInsert(s)
  \/ \E s \in Sessions : TxnCommit(s)

SpecConc == InitConc /\ [][NextConc]_vars

\* C9: whatever the interleaving of two concurrent
\* get_or_create_embedding_config calls, the committed store never holds two
\* active configs.
C9_NoTwoActiveCommitted ==
  \A i, j \in 1..Len(db.configs) :
    (db.configs[i].is_active /\ db.configs[j].is_active) => i = j

\* ------------------------------------------------------------------------
\* The embedding engine as a function of the provider script (SpecEngine)
\* ------------------------------------------------------------------------

\* the texts handed to the engine
TextPool == << <<"a">>, <<"b">>, <<"a", " ", "b">>, <<"b", " ", "a">>,
               <<"a", "\n", "\n", "b">> >>

\* provider scripts of the engine: the outcomes of the pipeline scripts and
\* a 5xx-class error with another status code than 500, 502 or 503
EngineScripts ==
  UNION {[1..k -> Outcomes \cup ServerErrors] : k \in 0..MaxScript}

InitEngine ==
  /\ \E n \in 1..BatchSize, script \in EngineScripts, m \in Models :
       call = [fn |-> "none", self |-> EmbeddingGenerator(m, BatchSize),
               texts |-> SubSeq(TextPool, 1, n), script |-> script,
               result |-> "none"]
  /\ db = Unused
  /\ sess = Unused
  /\ shots = Unused
  /\ run = Unused
  /\ hist = Unused
  /\ nruns = Unused
  /\ txn = Unused

\* one _generate_batch_embeddings call with the default max_retries
CallGenerateBatch ==
  /\ call.fn = "none"
  /\ call' = [call EXCEPT
                !.fn = "_generate_batch_embeddings",
                !.result = _generate_batch_embeddings(call.self, call.texts,
                                                      call.script, MaxRetries)]
  /\ UNCHANGED <<db, sess, shots, run, hist, nruns, txn>>

NextEngine ==
  \/ CallGenerateBatch

SpecEngine == InitEngine /\ [][NextEngine]_vars

\* what the provider does on its i-th call
OutcomeAt(script, i) == IF i <= Len(script) THEN script[i] ELSE "ok"

\* C10: if every call for a batch signals a rate limit, exactly
\* MaxRetries + 1 calls are made, with sleeps of 1s, 2s, 4s, ... before the
\* retries, and the rate-limit failure is raised; if the k-th call
\* (k <= MaxRetries + 1) succeeds after retried failures, the batch returns
\* that call's vectors after exactly k calls.
C10_RateLimitRetries ==
  call.fn = "_generate_batch_embeddings" =>
    /\ (\A i \in 1..(MaxRetries + 1) :
          OutcomeAt(call.script, i) = "rate_limit")
       => /\ ~call.result.ok
          /\ call.result.calls = MaxRetries + 1
          /\ call.result.sleeps = [i \in 1..MaxRetries |-> 2 ^ (i - 1)]
          /\ call.result.exc.type = "OpenAIRateLimitError"
    /\ \A k \in 1..(MaxRetries + 1) :
         (/\ OutcomeAt(call.script, k) = "ok"
          /\ \A i \in 1..(k - 1) :
               OutcomeAt(call.script, i) \in {"rate_limit", "server_error"})
         => /\ call.result.ok
            /\ call.result.calls = k
            /\ call.result.embeddings =
                 [i \in 1..Len(call.texts) |->
                    Vector(call.self.embedding_model, call.texts[i])]
            /\ (\A i \in 1..(k - 1) :
                  OutcomeAt(call.script, i) = "rate_limit")
               => call.result.sleeps = [i \in 1..(k - 1) |-> 2 ^ (i - 1)]

C10_Witness ==
  /\ call.fn = "_generate_batch_embeddings"
  /\ ~call.result.ok
  /\ call.result.exc.type = "OpenAIRateLimitError"
  /\ call.result.calls = MaxRetries + 1
  /\ call.result.sleeps = <<1, 2, 4>>


\* ------------------------------------------------------------------------
\* WebScraperOrchestrator: one scrape_website call at a time (SpecWeb)
\* ------------------------------------------------------------------------

\* scrape_website calls explored per behaviour
MaxScrapes == 1

\* similarity_threshold of ContentProcessor, in per cent
SimilarityThresholdPct == 95

\* the separator _chunk_content puts between two pages
PageBreak ==
  <<"\n", "\n", "-", "-", "-", "P", "A", "G", "E", "_", "B", "R", "E", "A",
    "K", "-", "-", "-", "\n", "\n">>

\* what scraping one discovered url can give: the extracted text of the
\* page, a fetch that fails after its retries, or an extraction that fails
\* the quality check (extract_content returns None)
PageFailures == {<<"fetch_failed">>, <<"low_quality">>}

PageOutcomes == PageTexts \cup PageFailures

\* str(e) of the exception _scrape_pages catches for a failed page
PageError(outcome) ==
  IF outcome = <<"low_quality">>
  THEN <<"Content extraction failed (quality check)">>
  ELSE <<"Timeout 30000ms exceeded">>

\* ExtractedContent: url is the position of the url in the discovered list
ExtractedContent(url, text) ==
  [url |-> url, text |-> text, word_count |-> Len(Words(text))]

\* the Book row _create_book_record adds
WebBook(source_url) ==
  [source_url |-> source_url, source_type |-> "website",
   title |-> <<"Website: ", source_url>>,
   ingestion_status |-> "in_progress", ingestion_error |-> <<>>,
   page_count |-> 0, word_count |-> 0]

\* the set of words MinHash is updated with (chunk_text.split())
WordSet(text) == {Words(text)[i] : i \in 1..Len(Words(text))}

\* ContentProcessor.__init__: the similarity threshold, in percent
ContentProcessor(similarity_threshold) ==
  [similarity_threshold |-> similarity_threshold]

\* lsh.query finds a stored chunk: the MinHash estimate of the Jaccard
\* similarity of the two word sets, taken as the similarity itself, reaches
\* the threshold of the index
Similar(self, t1, t2) ==
  LET A == WordSet(t1)
      B == WordSet(t2)
  IN  Cardinality(A \cap B) * 100
        >= self.similarity_threshold * Cardinality(A \cup B)

\* a faulty deduplicate_pages: pages are compared by url
RECURSIVE deduplicate_pages_by_url(_)
deduplicate_pages_by_url(pages) ==
  IF pages = <<>> THEN <<>>
  ELSE LET front == deduplicate_pages_by_url(
                      SubSeq(pages, 1, Len(pages) - 1))
           page == pages[Len(pages)]
       IN  IF \E i \in 1..Len(front) : front[i].url = page.url
           THEN front
           ELSE Append(front, page)

\* deduplicate_pages: the first page of every text is kept (equal SHA256
\* hashes are equal texts)
RECURSIVE deduplicate_pages(_)
deduplicate_pages(pages) ==
  IF pages = <<>> THEN <<>>
  ELSE LET front == deduplicate_pages(SubSeq(pages, 1, Len(pages) - 1))
           page == pages[Len(pages)]
       IN  IF \E i \in 1..Len(front) : front[i].text = page.text
           THEN front
           ELSE Append(front, page)

\* a faulty deduplicate_chunks: a chunk is compared with every earlier
\* chunk, kept or not
deduplicate_chunks_against_all(self, chunks) ==
  LET kept == {j \in 1..Len(chunks) :
                 /\ chunks[j].text # <<>>
                 /\ ~\E i \in 1..(j - 1) :
                       /\ chunks[i].text # <<>>
                       /\ Similar(self, chunks[i].text, chunks[j].text)}
      RECURSIVE Pick(_)
      Pick(i) == IF i > Len(chunks) THEN <<>>
                 ELSE IF i \in kept THEN <<chunks[i]>> \o Pick(i + 1)
                 ELSE Pick(i + 1)
  IN  Pick(1)

\* deduplicate_chunks over [id, text] records with distinct ids: a chunk
\* without text or with a similar chunk among those kept so far is dropped
RECURSIVE deduplicate_chunks(_, _)
deduplicate_chunks(self, chunks) ==
  IF chunks = <<>> THEN <<>>
  ELSE LET unique_chunks == deduplicate_chunks(self,
                              SubSeq(chunks, 1, Len(chunks) - 1))
           chunk == chunks[Len(chunks)]
       IN  IF chunk.text = <<>> THEN unique_chunks
           ELSE IF \E i \in 1..Len(unique_chunks) :
                     Similar(self, unique_chunks[i].text, chunk.text)
                THEN unique_chunks
                ELSE Append(unique_chunks, chunk)

\* _chunk_content; no paragraph of the modelled pages reaches the 3000
\* characters at which _ensure_paragraph_breaks splits it, so the text
\* passes through that step as it is
_chunk_content(pages) ==
  LET full_text == Join(PageBreak, [i \in 1..Len(pages) |-> pages[i].text])
      chunker == SemanticChunker(WebChunkSizeTokens, OverlapPct)
  IN  chunk_extracted_text(chunker, full_text, <<>>)

\* lines 206-212: the chunks whose index survives deduplicate_chunks
UniqueChunks(chunks) ==
  LET unique_chunks_data ==
        deduplicate_chunks(ContentProcessor(SimilarityThresholdPct),
          [i \in 1..Len(chunks) |->
             [id |-> i - 1, text |-> chunks[i].chunk_text]])
      unique_chunk_ids == {unique_chunks_data[k].id :
                             k \in 1..Len(unique_chunks_data)}
      kept == {i \in 1..Len(chunks) : (i - 1) \in unique_chunk_ids}
      RECURSIVE Pick(_)
      Pick(i) == IF i > Len(chunks) THEN <<>>
                 ELSE IF i \in kept THEN <<chunks[i]>> \o Pick(i + 1)
                 ELSE Pick(i + 1)
  IN  Pick(1)

\* model is settings.embedding_model, which is fixed for the process
IdleScrape ==
  [pc |-> "idle", book |-> 0, model |-> "none", urls |-> <<>>,
   extracted_pages |-> <<>>, unique_pages |-> <<>>,
   chunks |-> <<>>, unique_chunks |-> <<>>,
   success_count |-> 0, failure_count |-> 0, total_chunks |-> 0,
   total_words |-> 0, outcome |-> "none", raised |-> NoException]

\* no scrape yet; the config table is empty or holds the active config of
\* the configured model
InitWeb ==
  /\ \E model \in Models :
       /\ run = [IdleScrape EXCEPT !.model = model]
       /\ \E configs \in {<<>>, <<EmbeddingConfig(model, TRUE)>>} :
            db = [books |-> <<>>, chunks |-> <<>>, configs |-> configs,
                  failed_scrapes |-> <<>>]
  /\ sess = db
  /\ nruns = 0
  /\ shots = Unused
  /\ hist = Unused
  /\ txn = Unused
  /\ call = Unused

\* _update_book_status
_update_book_status(store, book_id, status, error) ==
  [store EXCEPT !.books[book_id].ingestion_status = status,
                !.books[book_id].ingestion_error = error]

\* scrape_website up to the discovered pages: _create_book_record commits
\* the new book; urls lists what scraping each discovered url will give
ScrapeWebsite(urls) ==
  /\ run.pc = "idle"
  /\ nruns < MaxScrapes
  /\ nruns' = nruns + 1
  /\ LET book_id == Len(db.books) + 1
         created == [db EXCEPT !.books = Append(@, WebBook(book_id))]
     IN  IF urls = <<>>
         THEN LET failed == _update_book_status(created, book_id, "failed",
                                                <<"No pages found">>)
              IN  /\ db' = failed
                  /\ sess' = failed
                  /\ run' = [IdleScrape EXCEPT !.book = book_id,
                               !.model = run.model,
                               !.outcome = "returned"]
         ELSE /\ db' = created
              /\ sess' = created
              /\ run' = [IdleScrape EXCEPT !.pc = "scrape",
                           !.book = book_id, !.model = run.model,
                           !.urls = urls]
  /\ UNCHANGED <<shots, hist, txn, call>>

\* a faulty scrape loop: the first page that fails ends the loop
RECURSIVE ExtractedPages_until_failure(_, _)
ExtractedPages_until_failure(urls, i) ==
  IF i > Len(urls) THEN <<>>
  ELSE IF urls[i] \in PageFailures THEN <<>>
  ELSE <<ExtractedContent(i, urls[i])>>
         \o ExtractedPages_until_failure(urls, i + 1)

\* the urls that were extracted, in order
RECURSIVE ExtractedPages(_, _)
ExtractedPages(urls, i) ==
  IF i > Len(urls) THEN <<>>
  ELSE IF urls[i] \in PageFailures THEN ExtractedPages(urls, i + 1)
  ELSE <<ExtractedContent(i, urls[i])>> \o ExtractedPages(urls, i + 1)

\* the FailedScrape rows _save_failed_scrape commits, in order
RECURSIVE FailedScrapes(_, _, _)
FailedScrapes(book_id, urls, i) ==
  IF i > Len(urls) THEN <<>>
  ELSE IF urls[i] \in PageFailures
       THEN <<[book_id |-> book_id, url |-> i,
               error_message |-> PageError(urls[i]), retry_count |-> 0]>>
            \o FailedScrapes(book_id, urls, i + 1)
       ELSE FailedScrapes(book_id, urls, i + 1)

\* _scrape_pages and the check of lines 186-189
ScrapePages ==
  /\ run.pc = "scrape"
  /\ LET extracted_pages == ExtractedPages(run.urls, 1)
         saved == [sess EXCEPT !.failed_scrapes =
                     @ \o FailedScrapes(run.book, run.urls, 1)]
         r1 == [run EXCEPT
                  !.extracted_pages = extracted_pages,
                  !.success_count = Len(extracted_pages),
                  !.failure_count =
                     Len(FailedScrapes(run.book, run.urls, 1))]
     IN  IF extracted_pages = <<>>
         THEN LET failed == _update_book_status(saved, run.book, "failed",
                              <<"All pages failed to scrape">>)
              IN  /\ db' = failed
                  /\ sess' = failed
                  /\ run' = [r1 EXCEPT !.pc = "idle", !.outcome = "returned"]
         ELSE /\ db' = saved
              /\ sess' = saved
              /\ run' = [r1 EXCEPT !.pc = "process"]
  /\ UNCHANGED <<shots, hist, nruns, txn, call>>

\* steps 4 to 7 of _do_scrape: page dedup, book metadata from the first
\* page (committed), chunking, chunk dedup
ProcessContent ==
  /\ run.pc = "process"
  /\ LET unique_pages == deduplicate_pages(run.extracted_pages)
         chunks == _chunk_content(unique_pages)
         titled == [sess EXCEPT !.books[run.book].title =
                      <<"page ", unique_pages[1].url>>]
     IN  /\ db' = titled
         /\ sess' = titled
         /\ run' = [run EXCEPT !.pc = "embed",
                      !.unique_pages = unique_pages,
                      !.chunks = chunks,
                      !.total_chunks = Len(chunks),
                      !.unique_chunks = UniqueChunks(chunks)]
  /\ UNCHANGED <<shots, hist, nruns, txn, call>>

\* the Chunk rows _generate_embeddings adds: zip(chunks, embeddings)
WebChunks(book_id, chunks, embeddings, config_id) ==
  LET n == IF Len(chunks) < Len(embeddings) THEN Len(chunks)
           ELSE Len(embeddings)
  IN  [i \in 1..n |->
         Chunk(book_id, chunks[i].chunk_text, chunks[i].chunk_sequence,
               chunks[i].token_count, {}, config_id, embeddings[i])]

\* _generate_embeddings; an exception leaves _do_scrape with nothing more
\* written (the book stays in_progress)
GenerateEmbeddings(script) ==
  /\ run.pc = "embed"
  /\ LET active == ActiveConfigs(sess)
     IN  IF active = {}
         THEN /\ script = <<>>
              /\ run' = [run EXCEPT !.pc = "idle", !.outcome = "raised",
                           !.raised = [type |-> "Exception",
                             text |-> <<"No active embedding configuration found">>]]
              /\ UNCHANGED <<db, sess>>
         ELSE
           LET config_id == CHOOSE i \in active : \A j \in active : i <= j
               generator == EmbeddingGenerator(run.model, BatchSize)
               texts == [i \in 1..Len(run.unique_chunks) |->
                           run.unique_chunks[i].chunk_text]
               g == generate_embeddings(generator, texts, script)
           IN  /\ Len(script) <= SumSeq(g.batch_calls)
               /\ IF ~g.ok
                  THEN /\ run' = [run EXCEPT !.pc = "idle",
                                    !.outcome = "raised", !.raised = g.exc]
                       /\ UNCHANGED <<db, sess>>
                  ELSE LET saved == [sess EXCEPT !.chunks =
                                       @ \o WebChunks(run.book,
                                              run.unique_chunks,
                                              g.embeddings, config_id)]
                       IN  /\ db' = saved
                           /\ sess' = saved
                           /\ run' = [run EXCEPT !.pc = "final"]
  /\ UNCHANGED <<shots, hist, nruns, txn, call>>

\* step 9: _update_book_final_status, then the result is returned
FinalStatus ==
  /\ run.pc = "final"
  /\ LET total_words == SumSeq([i \in 1..Len(run.unique_pages) |->
                                  run.unique_pages[i].word_count])
         final == [sess EXCEPT
                     !.books[run.book].ingestion_status = "completed",
                     !.books[run.book].page_count = Len(run.urls),
                     !.books[run.book].word_count = total_words]
     IN  /\ db' = final
         /\ sess' = final
         /\ run' = [run EXCEPT !.pc = "idle", !.outcome = "returned",
                               !.total_words = total_words]
  /\ UNCHANGED <<shots, hist, nruns, txn, call>>

NextWeb ==
  \/ \E n \in 0..MaxPages : \E urls \in [1..n -> PageOutcomes] :
       ScrapeWebsite(urls)
  \/ ScrapePages
  \/ ProcessContent
  \/ \E script \in ScriptsUpTo(MaxStageScript) : GenerateEmbeddings(script)
  \/ FinalStatus

SpecWeb == InitWeb /\ [][NextWeb]_vars


\* ------------------------------------------------------------------------
\* generate_embeddings as a function of the texts, the requested batch size
\* and the provider script (SpecEmbed)
\* ------------------------------------------------------------------------

\* most texts handed to one generate_embeddings call (besides the calls
\* that go over the cap on the batch size)
MaxTexts == 3

\* longest provider script explored for one generate_embeddings call
MaxEmbedScript == 4

EmbedScripts == UNION {[1..k -> AllOutcomes] : k \in 0..MaxEmbedScript}

\* the i-th text of a call: neighbours differ
EmbedText(i) == TextPool[((i - 1) % Len(TextPool)) + 1]

\* <<number of texts, requested batch size>> of the calls explored: small
\* ones, and calls at and over the cap on the batch size
EmbedCalls ==
  ((0..MaxTexts) \X (1..BatchSize))
    \cup {<<MaxTexts, MaxBatchSize + 1>>,
          <<MaxBatchSize + 1, MaxBatchSize>>,
          <<MaxBatchSize + 1, MaxBatchSize + 1>>}

\* a call with its arguments; the script holds no more outcomes than the
\* call consumes, and the calls with more than MaxTexts texts meet a
\* provider that answers well
InitEmbed ==
  /\ \E nb \in EmbedCalls, script \in EmbedScripts, m \in Models :
       LET self == EmbeddingGenerator(m, nb[2])
           texts == [i \in 1..nb[1] |-> EmbedText(i)]
       IN  /\ nb[1] > MaxTexts => script = <<>>
           /\ Len(script)
                <= SumSeq(generate_embeddings(self, texts, script).batch_calls)
           /\ call = [fn |-> "none", self |-> self, requested |-> nb[2],
                      texts |-> texts, script |-> script, result |-> "none"]
  /\ db = Unused
  /\ sess = Unused
  /\ shots = Unused
  /\ run = Unused
  /\ hist = Unused
  /\ nruns = Unused
  /\ txn = Unused

\* one generate_embeddings call
CallGenerateEmbeddings ==
  /\ call.fn = "none"
  /\ call' = [call EXCEPT
                !.fn = "generate_embeddings",
                !.result = generate_embeddings(call.self, call.texts,
                                               call.script)]
  /\ UNCHANGED <<db, sess, shots, run, hist, nruns, txn>>

NextEmbed ==
  \/ CallGenerateEmbeddings

SpecEmbed == InitEmbed /\ [][NextEmbed]_vars

\* position in the script of the first provider call of batch k
FirstCallOf(batches, k) ==
  1 + SumSeq([j \in 1..(k - 1) |-> batches[j].calls])

\* C11: a provider error that is neither a rate limit nor a 5xx-class error
\* on the first call of a batch fails the batch at once: that batch makes
\* exactly one call and takes no delay, an embedding failure is raised, and
\* no later batch is attempted.
C11_OtherErrorFailsAtOnce ==
  call.fn = "generate_embeddings" =>
    \A k \in 1..Len(call.result.batches) :
      OutcomeAt(call.script, FirstCallOf(call.result.batches, k))
          \in {"other_error", "client_error"}
      => /\ ~call.result.ok
         /\ call.result.exc.type = "EmbeddingGenerationError"
         /\ call.result.failed_batch = k
         /\ Len(call.result.batches) = k
         /\ call.result.batches[k].calls = 1
         /\ call.result.batches[k].sleeps = <<>>

\* C12: when the retries of a batch are exhausted, the type of the failure
\* generate_embeddings raises tells rate-limit exhaustion from any other
\* provider failure.
C12_TypedExhaustion ==
  (call.fn = "generate_embeddings" /\ ~call.result.ok) =>
    (call.result.cause.type = "OpenAIRateLimitError"
       <=> call.result.exc.type = "OpenAIRateLimitError")

\* ceil(n / m)
CeilDiv(n, m) == (n + m - 1) \div m

Min(a, b) == IF a < b THEN a ELSE b

\* C13: with a provider that never fails, generate_embeddings on n >= 1
\* texts with requested batch size b makes ceil(n / min(b, 2048)) calls; call
\* k carries the k-th slice of at most min(b, 2048) texts and starts after
\* the vectors of the calls before it were appended; the result is one
\* vector per text in input order; for n = 0 the result is empty and the
\* provider is not called.
C13_BatchesInOrder ==
  (/\ call.fn = "generate_embeddings"
   /\ \A i \in 1..Len(call.script) : call.script[i] = "ok") =>
    LET n == Len(call.texts)
        m == Min(call.requested, MaxBatchSize)
        r == call.result
    IN  /\ r.ok
        /\ Len(r.batches) = CeilDiv(n, m)
        /\ SumSeq(r.batch_calls) = CeilDiv(n, m)
        /\ \A k \in 1..Len(r.batches) :
             /\ r.batches[k].calls = 1
             /\ r.batches[k].texts
                  = SubSeq(call.texts, (k - 1) * m + 1, Min(k * m, n))
             /\ r.batches[k].started_with = (k - 1) * m
        /\ Len(r.embeddings) = n
        /\ r.embeddings = [i \in 1..n |->
                             Vector(call.self.embedding_model, call.texts[i])]

C13_Witness ==
  /\ call.fn = "generate_embeddings"
  /\ Len(call.texts) = MaxBatchSize + 1
  /\ call.requested = MaxBatchSize + 1
  /\ Len(call.result.batches) = 2
  /\ Len(call.result.embeddings) = MaxBatchSize + 1

\* C14: generate_embeddings returns one vector per text, each of exactly
\* embedding_dimensions components, whatever the provider answered; a batch
\* whose response is short or holds a vector of another width contributes
\* nothing.
C14_FullWidthVectors ==
  (call.fn = "generate_embeddings" /\ call.result.ok) =>
    /\ Len(call.result.embeddings) = Len(call.texts)
    /\ \A i \in 1..Len(call.result.embeddings) :
         call.result.embeddings[i].dims = call.self.embedding_dimensions


\* ------------------------------------------------------------------------
\* chunk_extracted_text as a function of the text and the screenshot
\* mapping (SpecChunk)
\* ------------------------------------------------------------------------

\* most paragraphs of one input text
MaxParas == 3

\* largest start offset of a page in a screenshot mapping
MaxOffset == 4

\* paragraphs of 1, 2 and 3 tokens
ChunkParas == {<<"a">>, <<"a", " ", "b">>, <<"b", " ", "a", " ", "b">>}

\* what stands between two paragraphs of an input text
ParaSeparators ==
  {BlankLine, <<"\n", "\n", "\n">>, <<"\n", "\n", "\n", "\n">>}

\* the chunkers explored: the configured one, and one whose overlap budget
\* (overlap_tokens = 2) can hold a whole chunk of several paragraphs
Chunkers ==
  {SemanticChunker(ChunkSizeTokens, OverlapPct),
   SemanticChunker(2 * ChunkSizeTokens, 50)}

\* a monotonic mapping from the start offsets of the pages to the pages
\* 1, 2, ..; the first page starts at offset 0
Mappings ==
  {[o \in S |-> Cardinality({q \in S : q <= o})] :
     S \in {T \in SUBSET (0..MaxOffset) : 0 \in T /\ Cardinality(T) <= 3}}

InitChunk ==
  /\ \E self \in Chunkers, n \in 0..MaxParas, sep \in ParaSeparators,
        lead \in {<<>>, <<" ">>, <<"\n", "\n", " ">>},
        mapping \in Mappings :
       \E paras \in [1..n -> ChunkParas] :
         call = [fn |-> "none", self |-> self,
                 text |-> lead \o Join(sep, paras),
                 mapping |-> mapping, result |-> "none"]
  /\ db = Unused
  /\ sess = Unused
  /\ shots = Unused
  /\ run = Unused
  /\ hist = Unused
  /\ nruns = Unused
  /\ txn = Unused

\* one chunk_extracted_text call
CallChunkExtractedText ==
  /\ call.fn = "none"
  /\ call' = [call EXCEPT
                !.fn = "chunk_extracted_text",
                !.result = chunk_extracted_text(call.self, call.text,
                                                call.mapping)]
  /\ UNCHANGED <<db, sess, shots, run, hist, nruns, txn>>

NextChunk ==
  \/ CallChunkExtractedText

SpecChunk == InitChunk /\ [][NextChunk]_vars

\* the overlap seed chunk k (k >= 2) is started with
SeedOf(self, chunks, k) ==
  _calculate_overlap_text(self, chunks[k - 1].chunk_text)

\* chunk k starts with its overlap seed and a blank line
HasSeed(self, chunks, k) ==
  LET lead == SeedOf(self, chunks, k) \o BlankLine
      ct == chunks[k].chunk_text
  IN  Len(ct) > Len(lead) /\ SubSeq(ct, 1, Len(lead)) = lead

\* the paragraphs of chunk k with its leading overlap seed removed
OwnParagraphs(self, chunks, k) ==
  LET ct == chunks[k].chunk_text
  IN  IF k = 1 THEN SplitBlankLine(ct)
      ELSE SplitBlankLine(
             SubSeq(ct, Len(SeedOf(self, chunks, k)) + 3, Len(ct)))

RECURSIVE Flatten(_)
Flatten(ss) == IF ss = <<>> THEN <<>> ELSE Head(ss) \o Flatten(Tail(ss))

\* C15: for a non-empty text every chunk after the first starts with the
\* overlap seed taken from the chunk before it, every chunk holds at least
\* one paragraph of its own, and the chunks' own paragraphs read in sequence
\* order are the paragraphs of the input, each once and in the input order.
C15_ChunkCoverage ==
  (call.fn = "chunk_extracted_text" /\ call.text # <<>>) =>
    LET chunks == call.result
    IN  /\ \A k \in 2..Len(chunks) : HasSeed(call.self, chunks, k)
        /\ \A k \in 1..Len(chunks) :
             OwnParagraphs(call.self, chunks, k) # <<>>
        /\ Flatten([k \in 1..Len(chunks) |->
                      OwnParagraphs(call.self, chunks, k)])
             = _split_into_paragraphs(call.text)

\* three paragraphs were spread over more than one chunk
C15_Witness ==
  /\ call.fn = "chunk_extracted_text"
  /\ Len(_split_into_paragraphs(call.text)) = 3
  /\ Len(call.result) >= 2
  /\ \E k \in 1..Len(call.result) :
       Len(OwnParagraphs(call.self, call.result, k)) >= 2

\* C16: every chunk has at most chunk_size_tokens tokens, except a chunk
\* that consists of one single input paragraph which alone exceeds the
\* budget.
C16_TokenBudget ==
  call.fn = "chunk_extracted_text" =>
    \A k \in 1..Len(call.result) :
      LET c == call.result[k]
      IN  \/ c.token_count <= call.self.chunk_size_tokens
          \/ /\ \E j \in 1..Len(_split_into_paragraphs(call.text)) :
                  c.chunk_text = _split_into_paragraphs(call.text)[j]
             /\ count_tokens(c.chunk_text) > call.self.chunk_size_tokens

\* C17: the i-th chunk returned by one chunk_extracted_text call has
\* chunk_sequence i, counting from 1: no gap and no repeat.
C17_SequenceNumbers ==
  call.fn = "chunk_extracted_text" =>
    \A k \in 1..Len(call.result) : call.result[k].chunk_sequence = k

C17_Witness ==
  /\ call.fn = "chunk_extracted_text"
  /\ Len(call.result) = 3
  /\ call.result[3].chunk_sequence = 3

\* the pages a character range overlaps: a page reaches from its start
\* offset up to the start offset of the next page
PagesOverlapped(start_pos, end_pos, screenshot_mapping) ==
  {screenshot_mapping[o] :
     o \in {p \in DOMAIN screenshot_mapping :
              /\ p <= end_pos
              /\ \A q \in DOMAIN screenshot_mapping :
                   q > p => q > start_pos}}

\* C18: the screenshot ids of every chunk are exactly the pages its
\* character range overlaps: one page for a chunk lying inside a page,
\* whichever page that is, and more only for a chunk across a page boundary.
C18_Lineage ==
  call.fn = "chunk_extracted_text" =>
    \A k \in 1..Len(call.result) :
      LET c == call.result[k]
      IN  c.screenshot_ids
            = PagesOverlapped(c.start_position, c.end_position, call.mapping)


\* ------------------------------------------------------------------------
\* deduplicate_pages and deduplicate_chunks as functions of their input
\* (SpecDedup)
\* ------------------------------------------------------------------------

\* most pages, and most chunks, handed to one call
MaxDedup == 3

\* page texts; two of them hold the same words in another order
DedupPageTexts ==
  {<<"a">>, <<"a", " ", "b">>, <<"b", " ", "a">>}

\* chunk texts: none, blank, and texts over the words a and b
DedupChunkTexts ==
  {<<>>, <<" ">>, <<"a">>, <<"b">>, <<"a", " ", "b">>, <<"b", " ", "a">>}

\* the processors explored: the default one, and one whose threshold two
\* texts sharing one word of two reach
Processors ==
  {ContentProcessor(SimilarityThresholdPct), ContentProcessor(50)}

InitDedup ==
  /\ \E self \in Processors, n \in 0..MaxDedup :
       \/ \E texts \in [1..n -> DedupPageTexts] :
            /\ self = ContentProcessor(SimilarityThresholdPct)
            /\ call = [fn |-> "none", op |-> "deduplicate_pages",
                       self |-> self,
                       input |-> [i \in 1..n |->
                                    ExtractedContent(i, texts[i])],
                       result |-> "none"]
       \/ \E texts \in [1..n -> DedupChunkTexts] :
            call = [fn |-> "none", op |-> "deduplicate_chunks",
                    self |-> self,
                    input |-> [i \in 1..n |->
                                 [id |-> i - 1, text |-> texts[i]]],
                    result |-> "none"]
  /\ db = Unused
  /\ sess = Unused
  /\ shots = Unused
  /\ run = Unused
  /\ hist = Unused
  /\ nruns = Unused
  /\ txn = Unused

\* one deduplicate_pages call
CallDeduplicatePages ==
  /\ call.fn = "none"
  /\ call.op = "deduplicate_pages"
  /\ call' = [call EXCEPT !.fn = "deduplicate_pages",
                          !.result = deduplicate_pages(call.input)]
  /\ UNCHANGED <<db, sess, shots, run, hist, nruns, txn>>

\* one deduplicate_chunks call
CallDeduplicateChunks ==
  /\ call.fn = "none"
  /\ call.op = "deduplicate_chunks"
  /\ call' = [call EXCEPT !.fn = "deduplicate_chunks",
                          !.result = deduplicate_chunks(call.self,
                                                        call.input)]
  /\ UNCHANGED <<db, sess, shots, run, hist, nruns, txn>>

NextDedup ==
  \/ CallDeduplicatePages
  \/ CallDeduplicateChunks

SpecDedup == InitDedup /\ [][NextDedup]_vars

\* the elements of input at the positions in keep, in input order
RECURSIVE SelectFrom(_, _, _)
SelectFrom(input, keep, i) ==
  IF i > Len(input) THEN <<>>
  ELSE IF i \in keep THEN <<input[i]>> \o SelectFrom(input, keep, i + 1)
  ELSE SelectFrom(input, keep, i + 1)

\* C19: deduplicate_pages returns, in input order, the unmodified first
\* page of each distinct text: a page is dropped if and only if an earlier
\* page of the input has the same text.
C19_FirstOccurrences ==
  call.fn = "deduplicate_pages" =>
    LET pages == call.input
        first == {j \in 1..Len(pages) :
                    ~\E i \in 1..(j - 1) : pages[i].text = pages[j].text}
    IN  call.result = SelectFrom(pages, first, 1)

\* the same text was fed twice among other pages
C19_Witness ==
  /\ call.fn = "deduplicate_pages"
  /\ Len(call.input) = 3
  /\ call.input[1].text = call.input[3].text
  /\ call.input[1].text # call.input[2].text
  /\ Len(call.result) = 2

\* positions of the input chunks that deduplicate_chunks returned
KeptPositions ==
  {j \in 1..Len(call.input) :
     \E k \in 1..Len(call.result) : call.result[k].id = call.input[j].id}

NearMatch(i, j) ==
  Similar(call.self, call.input[i].text, call.input[j].text)

\* the survivors are the kept input chunks, unmodified and in input order
OrderPreserved ==
  call.result = SelectFrom(call.input, KeptPositions, 1)

\* C20: deduplicate_chunks drops every chunk without text; it keeps a chunk
\* with text if and only if no chunk kept earlier in the same call is a
\* near-match at the threshold; the survivors are the kept chunks in input
\* order; the first chunk with text is kept; of two near-duplicate chunks
\* the later one is dropped whenever the earlier one is kept.
C20_KeptUnlessKeptNearMatch ==
  call.fn = "deduplicate_chunks" =>
    /\ OrderPreserved
    /\ \A j \in 1..Len(call.input) :
         /\ call.input[j].text = <<>> => j \notin KeptPositions
         /\ call.input[j].text # <<>> =>
              (j \in KeptPositions
                 <=> ~\E i \in KeptPositions : i < j /\ NearMatch(i, j))
         /\ (/\ call.input[j].text # <<>>
             /\ \A i \in 1..(j - 1) : call.input[i].text = <<>>)
            => j \in KeptPositions
         /\ \A i \in 1..(j - 1) :
              (NearMatch(i, j) /\ i \in KeptPositions)
                => j \notin KeptPositions

\* the second chunk is near the first and the third, the first and the
\* third are not near each other: the first and the third are kept
C20_Witness ==
  /\ call.fn = "deduplicate_chunks"
  /\ Len(call.input) = 3
  /\ NearMatch(1, 2)
  /\ NearMatch(2, 3)
  /\ ~NearMatch(1, 3)
  /\ KeptPositions = {1, 3}

\* C20 as stated: a chunk is kept if and only if no chunk kept earlier is a
\* near-match; the survivors are in input order; the first chunk is always
\* kept; of two near-duplicate chunks the one with the lower index is the
\* survivor.
C20_LowerIndexSurvives ==
  call.fn = "deduplicate_chunks" =>
    /\ OrderPreserved
    /\ \A j \in 1..Len(call.input) :
         /\ j \in KeptPositions
              <=> ~\E i \in KeptPositions : i < j /\ NearMatch(i, j)
         /\ j = 1 => j \in KeptPositions
         /\ \A i \in 1..(j - 1) :
              NearMatch(i, j)
                => (i \in KeptPositions /\ j \notin KeptPositions)


\* ------------------------------------------------------------------------
\* VectorSearch
\* ------------------------------------------------------------------------

\* an optional argument or field: None, or a value
None == [is_none |-> TRUE, value |-> <<>>]

Some(v) == [is_none |-> FALSE, value |-> v]

\* the vector the provider returns for a text, as a point of the plane; the
\* points have the same length, as the provider's vectors have
PointOf(text) ==
  CASE Words(text) = <<<<"a">>>> -> <<5, 0>>
    [] Words(text) = <<<<"b">>>> -> <<0, 5>>
    [] OTHER -> <<4, 3>>

Dot(u, v) == u[1] * v[1] + u[2] * v[2]

Norm(v) == CHOOSE n \in 0..Dot(v, v) : n * n = Dot(v, v)

\* 1 - Chunk.embedding.cosine_distance(query_vector), in percent
Similarity(embedding, query_vector) ==
  LET u == PointOf(embedding.text)
      v == PointOf(query_vector.text)
  IN  (Dot(u, v) * 100) \div (Norm(u) * Norm(v))

\* a faulty threshold test: a similarity equal to the threshold is left out
AboveThreshold_strict(similarity, similarity_threshold) ==
  similarity > similarity_threshold

\* .where(similarity >= similarity_threshold)
AboveThreshold(similarity, similarity_threshold) ==
  similarity >= similarity_threshold

\* a faulty argument check: top_k is not looked at
ValidateArguments_without_top_k(query_text, top_k, similarity_threshold) ==
  IF Strip(query_text) = <<>>
  THEN <<"Query text cannot be empty">>
  ELSE IF ~(0 <= similarity_threshold /\ similarity_threshold <= 100)
  THEN <<"similarity_threshold must be between 0 and 1">>
  ELSE <<>>

\* lines 88-95 of search: the text of the ValueError raised, or <<>>; the
\* threshold is in percent
ValidateArguments(query_text, top_k, similarity_threshold) ==
  IF Strip(query_text) = <<>>
  THEN <<"Query text cannot be empty">>
  ELSE IF ~(0 <= similarity_threshold /\ similarity_threshold <= 100)
  THEN <<"similarity_threshold must be between 0 and 1">>
  ELSE IF top_k < 1
  THEN <<"top_k must be at least 1">>
  ELSE <<>>

\* the Book row as the search reads it
SearchBook(title, created_at) == [title |-> title, created_at |-> created_at]

\* SearchResult
SearchResult(store, i, similarity_score) ==
  [chunk_id |-> i,
   chunk_text |-> store.chunks[i].chunk_text,
   similarity_score |-> similarity_score,
   book_id |-> store.chunks[i].book_id,
   book_title |-> store.books[store.chunks[i].book_id].title,
   screenshot_ids |-> store.chunks[i].screenshot_ids,
   chunk_sequence |-> store.chunks[i].chunk_sequence,
   previous_chunks |-> None,
   next_chunks |-> None]

\* a faulty QueryRows: the WHERE clauses of the filters are left out
QueryRows_without_filters(store, query_vector, similarity_threshold, book_ids, date_range) ==
  {i \in 1..Len(store.chunks) :
     LET c == store.chunks[i]
     IN  /\ c.embedding # NoEmbedding
         /\ AboveThreshold(Similarity(c.embedding, query_vector),
                           similarity_threshold)}

\* the rows the WHERE clauses of the search query let through (as chunk
\* indices); a comparison with the similarity of a NULL embedding is not
\* true
QueryRows(store, query_vector, similarity_threshold, book_ids, date_range) ==
  {i \in 1..Len(store.chunks) :
     LET c == store.chunks[i]
     IN  /\ c.embedding # NoEmbedding
         /\ AboveThreshold(Similarity(c.embedding, query_vector),
                           similarity_threshold)
         /\ (~book_ids.is_none /\ book_ids.value # <<>>)
              => \E k \in 1..Len(book_ids.value) :
                   book_ids.value[k] = c.book_id
         /\ ~date_range.is_none
              => /\ store.books[c.book_id].created_at >= date_range.value[1]
                 /\ store.books[c.book_id].created_at <= date_range.value[2]}

\* the sequences without repeats over a set
Orderings(S) ==
  {q \in [1..Cardinality(S) -> S] :
     \A i, j \in 1..Cardinality(S) : i # j => q[i] # q[j]}

\* ORDER BY similarity DESC: every order of the rows in which the
\* similarity never grows; rows of equal similarity come in any order
OrderBySimilarityDesc(store, rows, query_vector) ==
  {q \in Orderings(rows) :
     \A i \in 1..(Len(q) - 1) :
       Similarity(store.chunks[q[i]].embedding, query_vector)
         >= Similarity(store.chunks[q[i + 1]].embedding, query_vector)}

\* LIMIT n
Limit(q, n) == SubSeq(q, 1, IF n < Len(q) THEN n ELSE Len(q))

\* ORDER BY chunk_sequence DESC over a set of chunk indices
OrderBySequenceDesc(store, idx) ==
  LET asc == OrderBySequence(store, idx)
  IN  [k \in 1..Len(asc) |-> asc[Len(asc) + 1 - k]]

\* a faulty _get_context_window: the chunks of every book are looked at
_get_context_window_any_book(store, book_id, chunk_sequence, context_size) ==
  LET before == {i \in 1..Len(store.chunks) :
                   store.chunks[i].chunk_sequence < chunk_sequence}
      after == {i \in 1..Len(store.chunks) :
                  store.chunks[i].chunk_sequence > chunk_sequence}
      prev == Limit(OrderBySequenceDesc(store, before), context_size)
      next == Limit(OrderBySequence(store, after), context_size)
  IN  [previous |-> [k \in 1..Len(prev) |-> SearchResult(store, prev[k], 0)],
       next |-> [k \in 1..Len(next) |-> SearchResult(store, next[k], 0)]]

\* _get_context_window
_get_context_window(store, book_id, chunk_sequence, context_size) ==
  LET before == {i \in ChunkIdx(store, book_id) :
                   store.chunks[i].chunk_sequence < chunk_sequence}
      after == {i \in ChunkIdx(store, book_id) :
                  store.chunks[i].chunk_sequence > chunk_sequence}
      prev == Limit(OrderBySequenceDesc(store, before), context_size)
      next == Limit(OrderBySequence(store, after), context_size)
  IN  [previous |-> [k \in 1..Len(prev) |-> SearchResult(store, prev[k], 0)],
       next |-> [k \in 1..Len(next) |-> SearchResult(store, next[k], 0)]]

\* SearchMetadata (the elapsed time is left out)
SearchMetadata(embedding_model, total_results, similarity_threshold, top_k, filters_applied) ==
  [embedding_model |-> embedding_model,
   total_results |-> total_results,
   similarity_threshold |-> similarity_threshold,
   top_k |-> top_k,
   filters_applied |-> filters_applied]

\* the arguments of one search call
SearchArgs(query_text, top_k, similarity_threshold, book_ids, date_range, include_context, context_size) ==
  [query_text |-> query_text, top_k |-> top_k,
   similarity_threshold |-> similarity_threshold,
   book_ids |-> book_ids, date_range |-> date_range,
   include_context |-> include_context, context_size |-> context_size]

\* what a search call that raised leaves: the exception, the provider calls
\* made and the statements executed
SearchRaised(exc, provider_calls, executed) ==
  [ok |-> FALSE, exc |-> exc, results |-> <<>>,
   metadata |-> SearchMetadata("none", 0, 0, 0,
                  [book_ids |-> FALSE, date_range |-> FALSE]),
   where |-> [book_ids |-> FALSE, date_range |-> FALSE],
   provider_calls |-> provider_calls, executed |-> executed]

\* search: the results it can return or the exception it raises; `where`
\* records which of the optional WHERE clauses the query was given
search(self, store, a, script) ==
  LET invalid == ValidateArguments(a.query_text, a.top_k,
                                   a.similarity_threshold)
      e == generate_embeddings(self, <<a.query_text>>, script)
  IN  IF invalid # <<>>
      THEN {SearchRaised([type |-> "ValueError", text |-> invalid], 0, 0)}
      ELSE IF ~e.ok
      THEN {SearchRaised(e.exc, SumSeq(e.batch_calls), 0)}
      ELSE
        LET query_vector == e.embeddings[1]
            rows == QueryRows(store, query_vector, a.similarity_threshold,
                              a.book_ids, a.date_range)
        IN  {LET found == Limit(q, a.top_k)
                 plain == [k \in 1..Len(found) |->
                             SearchResult(store, found[k],
                               Similarity(store.chunks[found[k]].embedding,
                                          query_vector))]
                 search_results ==
                   IF a.include_context
                   THEN [k \in 1..Len(plain) |->
                           LET context == _get_context_window(store,
                                            plain[k].book_id,
                                            plain[k].chunk_sequence,
                                            a.context_size)
                           IN  [plain[k] EXCEPT
                                  !.previous_chunks = Some(context.previous),
                                  !.next_chunks = Some(context.next)]]
                   ELSE plain
             IN  [ok |-> TRUE, exc |-> NoException,
                  results |-> search_results,
                  metadata |-> SearchMetadata(self.embedding_model,
                                 Len(search_results),
                                 a.similarity_threshold, a.top_k,
                                 [book_ids |-> ~a.book_ids.is_none,
                                  date_range |-> ~a.date_range.is_none]),
                  where |-> [book_ids |-> (~a.book_ids.is_none
                                           /\ a.book_ids.value # <<>>),
                             date_range |-> ~a.date_range.is_none],
                  provider_calls |-> SumSeq(e.batch_calls),
                  executed |-> 1 + (IF a.include_context
                                    THEN 2 * Len(found) ELSE 0)]
             : q \in OrderBySimilarityDesc(store, rows, query_vector)}

\* ------------------------------------------------------------------------
\* One search call over a store of embedded chunks (SpecSearch)
\* ------------------------------------------------------------------------

\* most chunks in the store searched
MaxChunks == 3

\* largest top_k asked for
MaxTopK == 2

\* largest context_size asked for
MaxContext == 2

\* what a chunk of the store holds: a text with its vector (the vectors of
\* "a" and "b" are orthogonal), or a text whose embedding column is still
\* NULL
StoredChunks ==
  {[text |-> t, embedded |-> TRUE] : t \in {<<"a">>, <<"b">>}}
    \cup {[text |-> <<"a">>, embedded |-> FALSE]}

\* the two books of the store, created on day 1 and on day 2
SearchBooks ==
  [b \in {"b1", "b2"} |->
     IF b = "b1" THEN SearchBook(<<"t1">>, 1) ELSE SearchBook(<<"t2">>, 2)]

\* a store: the first k chunks belong to book b1, the others to book b2;
\* the chunks of a book are numbered from 1
SearchStore(k, content, model) ==
  [books |-> SearchBooks,
   chunks |-> [i \in 1..Len(content) |->
                 Chunk(IF i <= k THEN "b1" ELSE "b2",
                       content[i].text,
                       IF i <= k THEN i ELSE i - k,
                       count_tokens(content[i].text), {}, 1,
                       IF content[i].embedded
                       THEN Vector(model, content[i].text)
                       ELSE NoEmbedding)]]

SearchStores ==
  {SearchStore(k, content, "text-embedding-3-small") :
     k \in 0..MaxChunks,
     content \in UNION {[1..n -> StoredChunks] : n \in 0..MaxChunks}}

\* query texts: empty, blank, and texts the provider embeds
QueryTexts == {<<>>, <<" ">>, <<"\n", " ">>, <<"a">>, <<" ", "a", " ", "b">>}

\* thresholds in percent, two of them outside [0, 1]
Thresholds == {0 - 1, 0, 50, 80, 101}

\* filter arguments: absent, empty, and given
FilterArguments ==
  {<<None, None>>, <<Some(<<>>), None>>, <<Some(<<"b1">>), None>>,
   <<None, Some(<<1, 1>>)>>, <<Some(<<"b2">>), Some(<<1, 2>>)>>}

\* <<include_context, context_size>>
ContextArguments ==
  {<<FALSE, 1>>} \cup {<<TRUE, n>> : n \in 0..MaxContext}

\* the store of the retrieval scenario: the vectors (1,0), (0,1) and one
\* close to (1,0)
ScenarioStore ==
  SearchStore(3, <<[text |-> <<"a">>, embedded |-> TRUE],
                   [text |-> <<"b">>, embedded |-> TRUE],
                   [text |-> <<"a", " ", "b">>, embedded |-> TRUE]>>,
              "text-embedding-3-small")

\* the calls explored: the query "a" with a threshold of 0 or 0.8 and every
\* filter or every context choice over every store, and every choice of
\* query, threshold and top_k with a provider that answers, fails or is
\* rate limited once over the store of the scenario
InitSearch ==
  /\ \/ \E store \in SearchStores, q \in {<<"a">>},
          top_k \in 1..MaxTopK, th \in {0, 80},
          f \in FilterArguments, c \in ContextArguments :
          /\ (f = <<None, None>> \/ c = <<FALSE, 1>>)
          /\ db = store
          /\ call = [fn |-> "none",
                     self |-> EmbeddingGenerator("text-embedding-3-small",
                                                 BatchSize),
                     args |-> SearchArgs(q, top_k, th, f[1], f[2],
                                         c[1], c[2]),
                     script |-> <<>>, result |-> "none"]
     \/ \E q \in QueryTexts, top_k \in (0 - 1)..MaxTopK, th \in Thresholds,
          script \in {<<>>, <<"other_error">>, <<"rate_limit">>} :
          /\ db = ScenarioStore
          /\ call = [fn |-> "none",
                     self |-> EmbeddingGenerator("text-embedding-3-small",
                                                 BatchSize),
                     args |-> SearchArgs(q, top_k, th, None, None, FALSE, 1),
                     script |-> script, result |-> "none"]
  /\ sess = Unused
  /\ shots = Unused
  /\ run = Unused
  /\ hist = Unused
  /\ nruns = Unused
  /\ txn = Unused

\* one search call
CallSearch ==
  /\ call.fn = "none"
  /\ \E r \in search(call.self, db, call.args, call.script) :
       call' = [call EXCEPT !.fn = "search", !.result = r]
  /\ UNCHANGED <<db, sess, shots, run, hist, nruns, txn>>

NextSearch ==
  \/ CallSearch

SpecSearch == InitSearch /\ [][NextSearch]_vars

\* the similarity of chunk i of the store to the query of the call
SimOf(i) ==
  Similarity(db.chunks[i].embedding,
             Vector(call.self.embedding_model, call.args.query_text))

\* the chunks a search ranks: those with a vector, of the books asked for
\* when books are named, of the books created in the range when one is given
Candidates ==
  {i \in 1..Len(db.chunks) :
     /\ db.chunks[i].embedding # NoEmbedding
     /\ (~call.args.book_ids.is_none /\ call.args.book_ids.value # <<>>)
          => \E k \in 1..Len(call.args.book_ids.value) :
               call.args.book_ids.value[k] = db.chunks[i].book_id
     /\ ~call.args.date_range.is_none
          => /\ db.books[db.chunks[i].book_id].created_at
                  >= call.args.date_range.value[1]
             /\ db.books[db.chunks[i].book_id].created_at
                  <= call.args.date_range.value[2]}

ReturnedIds ==
  {call.result.results[k].chunk_id : k \in 1..Len(call.result.results)}

\* C21: a search that returns gives the candidates whose similarity is at
\* least the threshold, by similarity descending, cut to the first top_k:
\* nothing returned is below the threshold, no chunk is returned twice, at
\* most top_k are returned and none is withheld while there is room, and no
\* candidate left out is more similar than one returned.
C21_TopKAboveThreshold ==
  (call.fn = "search" /\ call.result.ok) =>
    LET R == call.result.results
        good == {i \in Candidates : SimOf(i) >= call.args.similarity_threshold}
    IN  /\ ReturnedIds \subseteq good
        /\ Cardinality(ReturnedIds) = Len(R)
        /\ Len(R) = Min(call.args.top_k, Cardinality(good))
        /\ \A k \in 1..Len(R) :
             /\ R[k].similarity_score = SimOf(R[k].chunk_id)
             /\ R[k].chunk_text = db.chunks[R[k].chunk_id].chunk_text
             /\ k < Len(R)
                  => R[k].similarity_score >= R[k + 1].similarity_score
             /\ \A i \in good \ ReturnedIds :
                  SimOf(i) <= R[k].similarity_score

\* the retrieval scenario: chunk 1 then chunk 3, never chunk 2
C21_Witness ==
  /\ call.fn = "search"
  /\ call.result.ok
  /\ db = ScenarioStore
  /\ call.args.query_text = <<"a">>
  /\ call.args.top_k = 2
  /\ call.args.similarity_threshold = 50
  /\ Len(call.result.results) = 2
  /\ call.result.results[1].chunk_id = 1
  /\ call.result.results[2].chunk_id = 3

\* C22: search raises ValueError exactly when the query is empty or blank,
\* the threshold is outside [0, 1] or top_k is below 1, and then neither
\* the embedding provider nor the store has been called.
C22_InvalidArguments ==
  call.fn = "search" =>
    LET invalid == \/ Strip(call.args.query_text) = <<>>
                   \/ call.args.similarity_threshold < 0
                   \/ call.args.similarity_threshold > 100
                   \/ call.args.top_k < 1
        r == call.result
    IN  /\ invalid <=> (~r.ok /\ r.exc.type = "ValueError")
        /\ invalid => (r.provider_calls = 0 /\ r.executed = 0)

\* only top_k is wrong
C22_Witness ==
  /\ call.fn = "search"
  /\ Strip(call.args.query_text) # <<>>
  /\ call.args.similarity_threshold = 50
  /\ call.args.top_k = 0
  /\ ~call.result.ok
  /\ call.result.exc.type = "ValueError"
  /\ call.result.provider_calls = 0

\* the chunks of the book of result r with a sequence number below (dir =
\* -1) or above (dir = 1) that of r
Neighbours(r, dir) ==
  {i \in 1..Len(db.chunks) :
     /\ db.chunks[i].book_id = r.book_id
     /\ IF dir < 0
        THEN db.chunks[i].chunk_sequence < r.chunk_sequence
        ELSE db.chunks[i].chunk_sequence > r.chunk_sequence}

\* context is a context list of result r on side dir: context chunks with
\* similarity 0, no chunk twice, as many as context_size allows, and no
\* neighbour left out is nearer to r than one taken
IsContextOf(context, r, dir) ==
  LET ids == {context[k].chunk_id : k \in 1..Len(context)}
      all == Neighbours(r, dir)
  IN  /\ ids \subseteq all
      /\ Cardinality(ids) = Len(context)
      /\ Len(context) = Min(call.args.context_size, Cardinality(all))
      /\ \A k \in 1..Len(context) :
           /\ context[k].similarity_score = 0
           /\ context[k].chunk_text = db.chunks[context[k].chunk_id].chunk_text
           /\ context[k].chunk_sequence
                = db.chunks[context[k].chunk_id].chunk_sequence
      /\ \A i \in ids, j \in all \ ids :
           IF dir < 0
           THEN db.chunks[j].chunk_sequence < db.chunks[i].chunk_sequence
           ELSE db.chunks[j].chunk_sequence > db.chunks[i].chunk_sequence

\* the results without their context
WithoutContext(results) ==
  [k \in 1..Len(results) |->
     [results[k] EXCEPT !.previous_chunks = None, !.next_chunks = None]]

\* the ranked results are results of the same search without context
RankingUntouched ==
  \E r \in search(call.self, db,
                  [call.args EXCEPT !.include_context = FALSE],
                  call.script) :
    r.results = WithoutContext(call.result.results)

\* C23: with include_context set, search attaches to each result up to
\* context_size neighbouring chunks before and after it by sequence number
\* within the same book: the chunks with the greatest sequence numbers
\* below the result's and those with the smallest above it, each with
\* similarity 0; without include_context no context is attached, whatever
\* context_size is; in both cases the ranked results are those of the
\* search without context.
C23_ContextWhenIncluded ==
  (call.fn = "search" /\ call.result.ok) =>
    /\ RankingUntouched
    /\ \A k \in 1..Len(call.result.results) :
         LET r == call.result.results[k]
         IN  IF call.args.include_context
             THEN /\ ~r.previous_chunks.is_none
                  /\ ~r.next_chunks.is_none
                  /\ IsContextOf(r.previous_chunks.value, r, 0 - 1)
                  /\ IsContextOf(r.next_chunks.value, r, 1)
             ELSE r.previous_chunks = None /\ r.next_chunks = None

\* a result in the middle of its book got a chunk before and a chunk after
C23_Witness ==
  /\ call.fn = "search"
  /\ call.result.ok
  /\ call.args.include_context
  /\ call.args.context_size = 1
  /\ \E k \in 1..Len(call.result.results) :
       LET r == call.result.results[k]
       IN  /\ Len(r.previous_chunks.value) = 1
           /\ Len(r.next_chunks.value) = 1
           /\ r.previous_chunks.value[1].chunk_sequence = r.chunk_sequence - 1
           /\ r.next_chunks.value[1].chunk_sequence = r.chunk_sequence + 1

\* C23 as stated: whenever context_size > 0, each result carries its
\* neighbouring chunks before and after.
C23_ContextBySize ==
  (call.fn = "search" /\ call.result.ok /\ call.args.context_size > 0) =>
    /\ RankingUntouched
    /\ \A k \in 1..Len(call.result.results) :
         LET r == call.result.results[k]
         IN  /\ ~r.previous_chunks.is_none
             /\ ~r.next_chunks.is_none
             /\ IsContextOf(r.previous_chunks.value, r, 0 - 1)
             /\ IsContextOf(r.next_chunks.value, r, 1)

\* C24: in the metadata of a search the flag of the book filter, and that
\* of the date filter, is true exactly when the filter narrowed the query,
\* for absent, empty and given filter arguments.
C24_FilterFlags ==
  (call.fn = "search" /\ call.result.ok) =>
    /\ call.result.metadata.filters_applied.book_ids
         <=> call.result.where.book_ids
    /\ call.result.metadata.filters_applied.date_range
         <=> call.result.where.date_range

\* ------------------------------------------------------------------------
\* Failure and terminal states of the book pipeline (Spec)
\* ------------------------------------------------------------------------

\* C25: when the extraction of a screenshot of a book fails, the screenshots
\* extracted in that invocation are those up to the failing one and no later
\* one, the invocation never sets the status text_extracted, and it ends
\* with the committed status 'failed' and a TextExtractionError raised.
C25_ExtractionStopsAtFailure ==
  (run.outcome = "raised" /\ run.raised.type = "TextExtractionError") =>
    /\ 2 \in run.stages_run
    /\ "text_extracted"
         \notin {run.statuses[i] : i \in 1..Len(run.statuses)}
    /\ run.extract_calls # <<>>
    /\ Len(run.extract_calls) <= Len(run.screenshots)
    /\ \A i \in 1..Len(run.extract_calls) :
         run.extract_calls[i] = run.screenshots[i].id
    /\ run.raised.text[2] = run.extract_calls[Len(run.extract_calls)]
    /\ run.chunker_calls = 0
    /\ run.provider_calls = 0
    /\ run.statuses[Len(run.statuses)] = "failed"
    /\ db.books[run.book].ingestion_status = "failed"

\* the first of two screenshots failed
C25_Witness ==
  /\ run.outcome = "raised"
  /\ run.raised.type = "TextExtractionError"
  /\ Len(run.screenshots) = 2
  /\ Len(run.extract_calls) = 1
  /\ db.books[run.book].ingestion_status = "failed"

\* C28: a committed status 'completed' stays: no step of a later invocation
\* replaces it by 'failed' or by an earlier status; 'failed' is entered only
\* from a status that is neither 'completed' nor 'failed'.
C28_CompletedIsTerminal ==
  [][\A b \in DOMAIN db.books :
       /\ db.books[b].ingestion_status = "completed"
            => db'.books[b].ingestion_status = "completed"
       /\ (/\ db'.books[b].ingestion_status = "failed"
           /\ db.books[b].ingestion_status # "failed")
            => db.books[b].ingestion_status # "completed"]_vars

\* a second invocation ran on the completed book and returned
C28_Witness ==
  /\ nruns = 2
  /\ run.pc = "idle"
  /\ run.entry = "process_existing_book"
  /\ run.start_status = "completed"
  /\ run.outcome = "returned"
  /\ db.books[run.book].ingestion_status = "completed"

\* C29: process_existing_book on an id that no book has raises the
\* not-found ValueError and changes nothing: no book is created, the
\* committed store and the session are as before, and no stage is entered.
C29_NotFoundChangesNothing ==
  [][(/\ nruns' # nruns
      /\ run'.entry = "process_existing_book"
      /\ run'.book \notin DOMAIN db.books)
     => /\ run'.outcome = "not_found"
        /\ run'.pc = "idle"
        /\ run'.raised.type = "ValueError"
        /\ db' = db
        /\ sess' = sess
        /\ run'.stages_run = {}
        /\ run'.extract_calls = <<>>
        /\ run'.chunker_calls = 0
        /\ run'.provider_calls = 0
        /\ run'.statuses = <<>>]_vars

C29_Witness ==
  /\ run.outcome = "not_found"
  /\ run.entry = "process_existing_book"
  /\ run.book \notin DOMAIN db.books
  /\ run.raised.type = "ValueError"

\* ------------------------------------------------------------------------
\* Failures of a website scrape (SpecWeb)
\* ------------------------------------------------------------------------

\* positions of the urls of the run whose fetch or extraction fails
FailedUrls == {i \in 1..Len(run.urls) : run.urls[i] \in PageFailures}

\* the committed FailedScrape rows of the book of the run
FailedRows ==
  SelectFrom(db.failed_scrapes,
             {k \in 1..Len(db.failed_scrapes) :
                db.failed_scrapes[k].book_id = run.book}, 1)

\* C26: a page of a website whose fetch or extraction fails does not end
\* the scrape: once the loop is over every url that did not fail was
\* extracted, in order; one FailedScrape row with the error text and retry
\* count 0 is committed per failed url, in order; and success_count +
\* failure_count is the number of urls.
C26_FailedPagesRecorded ==
  (run.urls # <<>> /\ run.pc # "scrape") =>
    /\ run.success_count + run.failure_count = Len(run.urls)
    /\ run.failure_count = Cardinality(FailedUrls)
    /\ Len(run.extracted_pages) = Len(run.urls) - Cardinality(FailedUrls)
    /\ \A k \in 1..Len(run.extracted_pages) :
         /\ run.extracted_pages[k].url \notin FailedUrls
         /\ run.extracted_pages[k].text = run.urls[run.extracted_pages[k].url]
         /\ k > 1 => run.extracted_pages[k - 1].url
                       < run.extracted_pages[k].url
    /\ Len(FailedRows) = Cardinality(FailedUrls)
    /\ \A k \in 1..Len(FailedRows) :
         /\ FailedRows[k].url \in FailedUrls
         /\ FailedRows[k].error_message = PageError(run.urls[FailedRows[k].url])
         /\ FailedRows[k].retry_count = 0
         /\ k > 1 => FailedRows[k - 1].url < FailedRows[k].url

\* the first page failed and the second was extracted
C26_Witness ==
  /\ run.pc = "process"
  /\ Len(run.urls) = 2
  /\ FailedUrls = {1}
  /\ Len(run.extracted_pages) = 1
  /\ Len(FailedRows) = 1

\* C27: when a step of scrape_website raises, the committed status of the
\* book is 'failed' with the error text; no scrape that has ended leaves
\* its book 'in_progress'.
C27_WebFailurePersisted ==
  (run.pc = "idle" /\ run.outcome # "none") =>
    /\ db.books[run.book].ingestion_status # "in_progress"
    /\ run.outcome = "raised" =>
         /\ db.books[run.book].ingestion_status = "failed"
         /\ db.books[run.book].ingestion_error = run.raised.text

\* ------------------------------------------------------------------------
\* Re-embedding with another model (SpecConfig)
\* ------------------------------------------------------------------------

\* the last call was a re_embed_book that returned, for a model other than
\* the one of the config that was active before it
ReEmbeddedWithOtherModel ==
  /\ call.op = "re_embed_book"
  /\ call.ok
  /\ \E i \in DOMAIN call.configs_before :
       /\ call.configs_before[i].is_active
       /\ call.configs_before[i].model_name # call.model

\* C30: re-embedding a book with a model other than the active one creates
\* exactly one new config, which is the only active config afterwards,
\* deactivates the config that was active, and overwrites the vector and
\* the config reference of every chunk of the book with the new embedding
\* and the new config.
C30_ReEmbedNewModel ==
  ReEmbeddedWithOtherModel =>
    LET new_id == Len(db.configs)
    IN  /\ Len(db.configs) = Len(call.configs_before) + 1
        /\ db.configs[new_id] = EmbeddingConfig(call.model, TRUE)
        /\ ActiveConfigs(db) = {new_id}
        /\ \A i \in DOMAIN call.configs_before :
             db.configs[i] =
               [call.configs_before[i] EXCEPT !.is_active = FALSE]
        /\ \A i \in ChunkIdx(db, call.book) :
             /\ db.chunks[i].embedding
                  = Vector(call.model, db.chunks[i].chunk_text)
             /\ db.chunks[i].embedding_config_id = new_id

\* ------------------------------------------------------------------------
\* Small inputs, overlap seeds and positions of the chunker (SpecChunk)
\* ------------------------------------------------------------------------

\* the paragraphs of the input of the call
InputParagraphs == _split_into_paragraphs(call.text)

\* the whole input fits the token budget
FitsBudget ==
  count_tokens(Join(BlankLine, InputParagraphs))
    <= call.self.chunk_size_tokens

\* C31: a text with at least one paragraph whose paragraphs joined fit the
\* token budget gives exactly one chunk, with sequence number 1 and start
\* position 0, whose text is the stripped paragraphs of the input joined by
\* blank lines.
C31_UnderBudgetOneChunk ==
  (call.fn = "chunk_extracted_text" /\ InputParagraphs # <<>> /\ FitsBudget)
    => /\ Len(call.result) = 1
       /\ call.result[1].chunk_sequence = 1
       /\ call.result[1].start_position = 0
       /\ call.result[1].chunk_text = Join(BlankLine, InputParagraphs)

\* two paragraphs under the budget ended in one chunk
C31_Witness ==
  /\ call.fn = "chunk_extracted_text"
  /\ Len(InputParagraphs) = 2
  /\ FitsBudget
  /\ Len(call.result) = 1
  /\ call.result[1].chunk_text # call.text

\* C31 as stated: any input that fits the budget gives exactly one chunk
\* whose text is the input text.
C31_ChunkIsInput ==
  (call.fn = "chunk_extracted_text" /\ FitsBudget)
    => /\ Len(call.result) = 1
       /\ call.result[1].chunk_sequence = 1
       /\ call.result[1].start_position = 0
       /\ call.result[1].chunk_text = call.text

\* C32: chunk_extracted_text on an empty or whitespace-only text returns
\* the empty list, whatever the screenshot mapping.
C32_BlankGivesNoChunk ==
  (call.fn = "chunk_extracted_text" /\ \A k \in 1..Len(call.text) :
                                         IsSpace(call.text[k]))
    => call.result = <<>>

\* a text of a blank line and a space, with a mapping of several pages
C32_Witness ==
  /\ call.fn = "chunk_extracted_text"
  /\ call.text = <<"\n", "\n", " ">>
  /\ Cardinality(DOMAIN call.mapping) > 1
  /\ call.result = <<>>

\* the last n words of a text, joined by single spaces
LastWords(t, n) ==
  Join(<<" ">>, SubSeq(Words(t), Len(Words(t)) - n + 1, Len(Words(t))))

\* the seed the chunker takes from a closed chunk: the whole chunk when its
\* tokens fit overlap_tokens, else its last floor(ratio * words) words and
\* at least one
SeedWithFloor(self, closed) ==
  LET n == (Len(Words(closed)) * self.chunk_overlap_percentage) \div 100
  IN  IF count_tokens(closed) <= self.overlap_tokens THEN closed
      ELSE LastWords(closed, IF n = 0 THEN 1 ELSE n)

\* the seed as the last floor(ratio * words) words of the closed chunk
SeedByRatio(self, closed) ==
  LastWords(closed,
            (Len(Words(closed)) * self.chunk_overlap_percentage) \div 100)

\* the text `t` starts with `lead`
StartsWith(t, lead) ==
  Len(t) >= Len(lead) /\ SubSeq(t, 1, Len(lead)) = lead

\* number of input paragraphs consumed by the chunks 1..k, the seed of a
\* chunk having the length `seedlen` gives for its index
RECURSIVE Consumed(_, _)
Consumed(seedlen, k) ==
  IF k = 0 THEN 0
  ELSE LET ct == call.result[k].chunk_text
           own == IF k = 1 THEN ct
                  ELSE SubSeq(ct, seedlen[k] + 3, Len(ct))
       IN  Consumed(seedlen, k - 1) + Len(SplitBlankLine(own))

\* seeds[k] being the seed taken from chunk k: chunk k was closed because
\* the next input paragraph would overflow the budget, and chunk k + 1 is
\* seeds[k], a blank line, that paragraph (and what was accumulated after
\* it)
OpensWithSeed(seeds) ==
  LET chunks == call.result
      seedlen == [k \in 1..Len(chunks) |->
                    IF k = 1 THEN 0 ELSE Len(seeds[k - 1])]
  IN  \A k \in 1..(Len(chunks) - 1) :
        LET next == Consumed(seedlen, k) + 1
        IN  /\ next <= Len(InputParagraphs)
            /\ count_tokens(chunks[k].chunk_text \o BlankLine
                              \o InputParagraphs[next])
                 > call.self.chunk_size_tokens
            /\ StartsWith(chunks[k + 1].chunk_text,
                          seeds[k] \o BlankLine \o InputParagraphs[next])

C38_PositionsInText ==
  call.fn = "chunk_extracted_text" =>
    \A k \in 1..Len(call.result) :
      /\ 0 <= call.result[k].start_position
      /\ call.result[k].start_position < call.result[k].end_position
      /\ call.result[k].end_position <= Len(call.text)

\* ------------------------------------------------------------------------
\* Mixed rate limits and server errors on one batch (SpecEngine)
\* ------------------------------------------------------------------------

\* rate-limit signals among the first i - 1 provider calls
RateLimitsBefore(i) ==
  Cardinality({j \in 1..(i - 1) : OutcomeAt(call.script, j) = "rate_limit"})

\* C36: when every provider call of a batch answers, signals a rate limit
\* or fails with a 5xx-class error, at most MaxRetries + 1 calls are made;
\* every failed call but the one at the cap is retried, after a sleep of 2s
\* for a 5xx-class error and of 2^r s for a rate limit, r being the number
\* of rate limits so far (5xx errors do not count); the call returns the
\* vectors of the first answer, or raises after the failure of call
\* MaxRetries + 1.
C36_MixedRetries ==
  (/\ call.fn = "_generate_batch_embeddings"
   /\ \A i \in 1..Len(call.script) :
        call.script[i] \in {"ok", "rate_limit"} \cup ServerErrors)
  => LET r == call.result
     IN  /\ r.calls <= MaxRetries + 1
         /\ Len(r.sleeps) = r.calls - 1
         /\ \A i \in 1..(r.calls - 1) :
              /\ OutcomeAt(call.script, i) # "ok"
              /\ r.sleeps[i] =
                   IF OutcomeAt(call.script, i) \in ServerErrors THEN 2
                   ELSE 2 ^ RateLimitsBefore(i)
         /\ r.ok =>
              /\ OutcomeAt(call.script, r.calls) = "ok"
              /\ r.embeddings =
                   [i \in 1..Len(call.texts) |->
                      Vector(call.self.embedding_model, call.texts[i])]
         /\ ~r.ok =>
              /\ r.calls = MaxRetries + 1
              /\ r.exc.type =
                   IF OutcomeAt(call.script, r.calls) = "rate_limit"
                   THEN "OpenAIRateLimitError"
                   ELSE "EmbeddingGenerationError"

\* C36 for the status codes the retry loop recognises (500, 502, 503): the
\* same statement with every 5xx error of the script an HTTP 500
C36_MixedRetries500 ==
  (\A i \in 1..Len(call.script) : call.script[i] # "gateway_timeout")
    => C36_MixedRetries

\* ------------------------------------------------------------------------
\* What a failed stage leaves committed (Spec)
\* ------------------------------------------------------------------------

\* C33: when a stage of a run fails, the step that ends the run commits
\* nothing but the status 'failed' and the error text of the book: every
\* chunk, embedding and config row of the store is as it was committed
\* before the stage failed.
C33_FailureCommitsStatusOnly ==
  [][(run.pc # "idle" /\ run'.pc = "idle" /\ run'.outcome = "raised")
       => db' = [db EXCEPT
                   !.books[run.book].ingestion_status = "failed",
                   !.books[run.book].ingestion_error = run'.raised.text]]_vars

\* ------------------------------------------------------------------------
\* The statuses a run commits (Spec)
\* ------------------------------------------------------------------------

\* the statuses of the five stages, in stage order
StageStatuses ==
  <<"screenshots_complete", "text_extracted", "chunks_created",
    "embeddings_generated", "completed">>

\* the stage a run is about to execute
StageNo ==
  CASE run.pc = "stage1" -> 1
    [] run.pc = "stage2" -> 2
    [] run.pc = "stage3" -> 3
    [] run.pc = "stage4" -> 4
    [] run.pc = "stage5" -> 5
    [] OTHER -> 6

\* the run committed the statuses `expected` one after the other: when
\* stage n is about to start the statuses of the stages `first`..n - 1 are
\* committed, in order, the last of them is the persisted status, and the
\* chunks and vectors of the stages that are done are persisted with it
StatusesInOrder(first) ==
  LET n == IF StageNo - first > 0 THEN StageNo - first ELSE 0
      b == run.book
  IN  /\ run.statuses = SubSeq(StageStatuses, first, first + n - 1)
      /\ db.books[b].ingestion_status =
           IF n = 0 THEN run.start_status ELSE run.statuses[n]
      /\ StageNo > 3 =>
           \A i \in 1..Len(run.chunks) :
             /\ run.chunks[i] \in ChunkIdx(db, b)
             /\ db.chunks[run.chunks[i]].chunk_sequence = i
      /\ StageNo > 4 =>
           \A i \in 1..Len(run.chunks) :
             db.chunks[run.chunks[i]].embedding # NoEmbedding

\* a run from 'in_progress' that has not failed and was not interrupted
RunFromInProgress ==
  /\ run.book \in DOMAIN db.books
  /\ run.start_status = "in_progress"
  /\ run.outcome \in {"none", "returned"}

\* C34: during a successful run that starts from in_progress the persisted
\* status takes the values of the stages in stage order, never skipping one
\* that the run executes and never going back, each committed together with
\* the output of its stage before the next stage starts: run_pipeline
\* commits screenshots_complete, text_extracted, chunks_created,
\* embeddings_generated, completed; process_existing_book, which does not
\* execute stage 1, commits text_extracted, chunks_created,
\* embeddings_generated, completed.
C34_StatusesOfTheStages ==
  RunFromInProgress =>
    StatusesInOrder(IF run.entry = "run_pipeline" THEN 1 ELSE 2)

\* run_pipeline returned after it committed the five statuses
C34_Witness ==
  /\ run.entry = "run_pipeline"
  /\ run.start_status = "in_progress"
  /\ run.outcome = "returned"
  /\ run.statuses = StageStatuses
  /\ db.books[run.book].ingestion_status = "completed"

\* C34 as stated: every run from in_progress commits all five statuses,
\* screenshots_complete first.
C34_AllFiveStatuses ==
  RunFromInProgress => StatusesInOrder(1)

\* C35: whenever the persisted status of a book is embeddings_generated or
\* completed, every persisted chunk of the book has an embedding.
C35_EmbeddedWhenStatusSaysSo ==
  \A b \in DOMAIN db.books :
    db.books[b].ingestion_status \in {"embeddings_generated", "completed"}
      => \A i \in ChunkIdx(db, b) : db.chunks[i].embedding # NoEmbedding

\* ------------------------------------------------------------------------
\* Filters and the top-K cut (SpecSearch)
\* ------------------------------------------------------------------------

\* the chunks of the books that satisfy every filter the call was given:
\* the book is one of book_ids when book_ids is given, and it was created
\* in date_range when date_range is given
InFilteredBooks ==
  {i \in 1..Len(db.chunks) :
     /\ ~call.args.book_ids.is_none
          => \E k \in 1..Len(call.args.book_ids.value) :
               call.args.book_ids.value[k] = db.chunks[i].book_id
     /\ ~call.args.date_range.is_none
          => /\ db.books[db.chunks[i].book_id].created_at
                  >= call.args.date_range.value[1]
             /\ db.books[db.chunks[i].book_id].created_at
                  <= call.args.date_range.value[2]}

\* the chunks of the filtered books that can be ranked: those with a vector
\* whose similarity reaches the threshold
FilteredCandidates ==
  {i \in {j \in InFilteredBooks : db.chunks[j].embedding # NoEmbedding} :
     SimOf(i) >= call.args.similarity_threshold}

ActiveBefore ==
  {i \in DOMAIN call.configs_before :
     /\ call.configs_before[i].is_active
     /\ call.configs_before[i].model_name = call.model}

\* C40: when an active config of the configured model exists,
\* get_or_create_embedding_config returns that config and writes nothing:
\* no config is created, no active flag changes, and the stored configs are
\* the ones there were before the call.
C40_FoundConfigNoWrite ==
  (call.op = "get_or_create_embedding_config" /\ ActiveBefore # {}) =>
    /\ call.ok
    /\ call.id \in ActiveBefore
    /\ db.configs = call.configs_before

\* the active config was found next to an archived one
C40_Witness ==
  /\ call.op = "get_or_create_embedding_config"
  /\ ActiveBefore # {}
  /\ call.id \in ActiveBefore
  /\ Len(call.configs_before) = 2
  /\ db.configs = call.configs_before

====
